---- MODULE Spec2Model ----
(***************************************************************************)
(* A model of the aspire-orchestrator core: the Slot Manager with its port *)
(* allocator, state store and the child processes it supervises            *)
(* (crates/ao-core), the framed IPC of the agent connection, and the agent *)
(* host process (crates/ao-tui/src/host.rs).                               *)
(*                                                                         *)
(* The Slot Manager is one shared object; every public operation runs as a *)
(* tokio task (keys.rs spawns one per key press), so operations interleave *)
(* at their await points.  A task's position is pc[t]; one action is one   *)
(* stretch of code between two await points (a lock acquisition, a child   *)
(* process, a file write).                                                 *)
(***************************************************************************)
EXTENDS Integers, Sequences, FiniteSets, TLC

\* ------------------------------------------------------------------ bounds
\* Ports the OS can hand out are 1..MaxPort.
MaxPort == 3
\* Writes of state.json that fail during one run.
MaxPersistFailures == 1

Ports == 1..MaxPort
Names == {"a", "b"}
Tasks == {1, 2}

\* The manifest (.aspire-orchestrator.yaml) found in a clone:
\* none = no file, invalid = syntax error or empty apphost,
\* pinned1 / pinned2 = a valid manifest with one / two port overrides.
Manifests == {"none", "invalid", "pinned1", "pinned2"}

\* OrchestratorConfig.port_overrides of a manifest, as a set of <<key, port>>.
port_overrides(m) ==
    CASE m = "pinned1" -> {<<"K1", 1>>}
      [] m = "pinned2" -> {<<"K1", 1>>, <<"K2", 2>>}
      [] m = "pinned_same" -> {<<"K1", 1>>, <<"K2", 1>>}
      [] OTHER -> {}

\* Frames written on one connection.
MaxFrames == 2
\* Chunks of PTY output the agent produces.
MaxChunks == 2
MaxLagChunks == 258
MaxLines == 3
MAX_POLLS == 40
MaxFileOps == 3
LF == 10
FileLines == {<<97, 98>>, <<99>>, <<>>}
WINDOW_SECS == 120
IDLE_SECS == 300
MaxNow == 420
ClockStep == 60
MaxStamps == 2
SlotStatuses == {"Provisioning", "Ready", "Starting", "Running", "Stopping", "Error"}
AgentStatuses == {"None", "Starting", "Active", "Blocked", "Stopped"}
Streams == {"stdout", "stderr"}
LOG_CAPACITY == 10000
MAX_TIMESTAMPS == 120

\* Targets of one batch operation.
MaxTargets == 2

\* agent_host.rs: the channel bytes of the framing protocol and the largest
\* payload length a frame header can carry (u16::MAX).
CHANNEL_PTY_OUTPUT == 1
CHANNEL_PTY_INPUT == 2
CHANNEL_CONTROL == 3
U16_MAX == 65535
\* host.rs: the capacity of the broadcast channel for PTY output.
BROADCAST_CAPACITY == 256

\* The payload lengths handed to write_frame: empty, short, the largest
\* that fits the header, and one byte more.
PayloadLens == {0, 2, U16_MAX, U16_MAX + 1}
\* The channels write_frame is called with (send_input, send_resize, send_kill).
WriteChannels == {CHANNEL_PTY_INPUT, CHANNEL_CONTROL}
\* The TUI clients of one agent host, and the exit codes of the agent.
Clients == {1, 2}
ExitCodes == {0, 1}

VARIABLES
    slots,               \* SlotManager.slots: Vec<Slot>
    state_file,          \* the slot list stored in state.json
    allocated,           \* PortAllocator.allocated: HashSet<u16>
    aspire_processes,    \* keys of SlotManager.aspire_processes
    agent_tailer_handles,\* keys of SlotManager.agent_tailer_handles
    clone_dirs,          \* names n whose directory {slots_root}/n exists
    tmux_sessions,       \* names n whose tmux session ao-n exists
    orphan_children,     \* names with a live stack child no map entry refers to
    detached_log_tasks,  \* names with a live log task whose handle was dropped
    aborting_log_tasks,  \* names with a log task aborted while a poll of it was running
    persist_failures,    \* the writes of state.json that failed so far
    pc,                  \* pc[t]: where task t stands
    arg,                 \* arg[t]: the slot name of the call in progress
    loc,                 \* loc[t]: the locals of the call in progress
    ret,                 \* what the last step returned to its caller, if it returned
    written,             \* the frames put on a connection by write_frame, in order
    delivered,           \* how many bytes of that stream have reached the reader
    reader,              \* read_frame in progress: its position and the header read
    received,            \* the frames read_frame has returned, in order
    h_pc,                \* where run_host stands
    exit_code,           \* the exit code of the agent child, once it has exited
    info_file,           \* whether .agent-host.json exists
    pty_chunks,          \* the chunks of PTY output read so far
    pty_log,             \* the chunks appended to the log file of the agent
    cstate,              \* cstate[k]: the stream task of client k
    writer,              \* writer[k]: the writer task of handle_client for client k
    rx,                  \* rx[k]: the broadcast receiver of that writer task
    sock,                \* sock[k]: bytes written to client k's socket and not yet read
    got,                 \* got[k]: the frames client k has read
    pty_reader,          \* the PTY reader task of run_host
    host_status,         \* the exit status of the host process, once it has ended
    to_host,             \* to_host[k]: bytes client k has written and the host has not read
    lk_op,               \* lk_op[t]: the SlotManager method task t runs, lock by lock
    lk_arg,              \* lk_arg[t]: its slot name
    lk_pc,               \* lk_pc[t]: the instruction of that method it has reached
    lk_held,             \* lk_held[t]: the lock guards task t holds
    lk_await,            \* lk_await[t]: the external I/O task t is awaiting
    lk_procs,            \* the keys of SlotManager.aspire_processes, lock by lock
    emitted,             \* the stream of every line the stack child has written, in order
    pipe,                \* pipe[s]: the lines written to stream s and not yet read
    line_chan,           \* the channel of aspire::start, from the two readers to the log task
    log_chan,            \* SlotManager.log_tx, from the log task to the TUI
    event_chan,          \* the event channel of the TUI
    log_buffer,          \* LogBuffer.entries
    activity,            \* the activity record of the slot
    b_kind,              \* the batch operation launched, if any
    b_targets,           \* its target list (the resolved slots of a blueprint)
    b_total,             \* its total
    b_i,                 \* the loop index i of the batch task
    b_pc,                \* where the batch task stands
    b_events,            \* the BatchProgress events it has sent, in order
    b_calls,             \* the Slot Manager calls it has made, in order, with their results
    blueprint,           \* the Blueprint handed to validate and resolve
    bp_ret,              \* what the last of them returned
    blueprints_dir,      \* {slots_root}/blueprints: whether it exists and its files
    store_log,           \* the BlueprintStore calls made so far, with what each returned
    alloc_pc,            \* where a call of PortAllocator::allocate stands
    alloc_i,             \* its loop counter
    alloc_before,        \* the tracked set when it took the lock
    alloc_rejected,      \* the candidates it found tracked, one after another
    alloc_ret,           \* what the last call returned
    state_json,          \* the file state.json as SlotStateStore sees it
    st_saved,            \* the list of the most recent save that returned Ok, if any
    st_ret,              \* what the last call of SlotStateStore returned
    log_lines,           \* the lines the service stack has written, in order
    log_cut,             \* how many of them an earlier parse_log_content was given
    log_short,           \* what parse_log_content returned for those
    log_long,             \* what parse_log_content returned for all the lines
    sp_pc,               \* where agent_host::spawn stands
    sp_polls,            \* the polls of the info file it has made
    sp_ret,              \* what agent_host::spawn returned
    sp_info,             \* the host process whose .agent-host.json is on disk, if any
    sp_host,             \* the host process that spawn launched
    sp_earlier,           \* an earlier host process of the same slot
    at_now,              \* seconds on the monotonic clock of the TUI
    at_status,           \* the status of the slot in App.slots
    at_agent,            \* its agent status
    at_stamps,           \* SlotActivity.log_timestamps, as seconds
    at_last,             \* when the last log event of the slot was recorded, if ever
    at_attention,         \* SlotActivity.needs_attention
    tl_pc,               \* where the tailer task stands
    tl_exists,           \* whether the log file exists
    tl_file,             \* the bytes of the log file
    tl_pos,              \* last_position of the tailer
    tl_sent,             \* the lines the tailer has sent, in order
    tl_appended,         \* the lines appended to the file so far, in order
    tl_seen,             \* whether the tailer has polled since the file last changed
    tl_closed,           \* whether the receiver of the channel has been dropped
    tl_ops               \* the writes and truncations of the file so far

slotVars == <<slots, state_file, allocated, aspire_processes, agent_tailer_handles,
              clone_dirs, tmux_sessions, orphan_children, detached_log_tasks, aborting_log_tasks,
              persist_failures, pc, arg, loc, ret>>
frameVars == <<written, delivered, reader, received>>
hostVars == <<h_pc, exit_code, info_file, pty_chunks, pty_log, cstate, writer, rx, sock, got,
              pty_reader, host_status, to_host>>
batchVars == <<b_kind, b_targets, b_total, b_i, b_pc, b_events, b_calls>>
coreVars == <<slotVars, frameVars, hostVars, batchVars>>
bpVars == <<blueprint, bp_ret>>
storeVars == <<blueprints_dir, store_log>>
allocVars == <<alloc_pc, alloc_i, alloc_before, alloc_rejected, alloc_ret>>
stateVars == <<state_json, st_saved, st_ret>>
logVars == <<log_lines, log_cut, log_short, log_long>>
lockVars == <<lk_op, lk_arg, lk_pc, lk_held, lk_await, lk_procs>>
pipeVars == <<emitted, pipe, line_chan, log_chan, event_chan, log_buffer, activity>>
spawnVars == <<sp_pc, sp_polls, sp_ret, sp_info, sp_host, sp_earlier>>
attnVars == <<at_now, at_status, at_agent, at_stamps, at_last, at_attention>>
tailVars == <<tl_pc, tl_exists, tl_file, tl_pos, tl_sent, tl_appended, tl_seen, tl_closed, tl_ops>>
libVars == <<bpVars, storeVars, allocVars, stateVars, logVars, lockVars, pipeVars, spawnVars, attnVars, tailVars>>
exceptBp == <<coreVars, storeVars, allocVars, stateVars, logVars, lockVars, pipeVars, spawnVars, attnVars, tailVars>>
exceptStore == <<coreVars, bpVars, allocVars, stateVars, logVars, lockVars, pipeVars, spawnVars, attnVars, tailVars>>
exceptState == <<coreVars, bpVars, storeVars, allocVars, logVars, lockVars, pipeVars, spawnVars, attnVars, tailVars>>
exceptLog == <<coreVars, bpVars, storeVars, allocVars, stateVars, lockVars, pipeVars, spawnVars, attnVars, tailVars>>
exceptLock == <<coreVars, bpVars, storeVars, allocVars, stateVars, logVars, pipeVars, spawnVars, attnVars, tailVars>>
exceptPipe == <<coreVars, bpVars, storeVars, allocVars, stateVars, logVars, lockVars, spawnVars, attnVars, tailVars>>
exceptAlloc == <<state_file, slots, aspire_processes, agent_tailer_handles, clone_dirs,
                 tmux_sessions, orphan_children, detached_log_tasks, aborting_log_tasks,
                    persist_failures,
                 pc, arg, loc, ret, frameVars, hostVars, batchVars, bpVars, storeVars,
                 stateVars, logVars, lockVars, pipeVars, spawnVars, attnVars, tailVars>>
exceptSpawn == <<coreVars, bpVars, storeVars, allocVars, stateVars, logVars, lockVars, pipeVars, attnVars, tailVars>>
exceptAttn == <<coreVars, bpVars, storeVars, allocVars, stateVars, logVars, lockVars, pipeVars, spawnVars, tailVars>>
exceptTail == <<coreVars, bpVars, storeVars, allocVars, stateVars, logVars, lockVars, pipeVars, spawnVars, attnVars>>
vars == <<slotVars, frameVars, hostVars, batchVars, libVars>>

\* ------------------------------------------------------------------ slots
\* Slot::new: a fresh record is Provisioning with no agent, ports or services.
SlotNew(n) ==
    [name |-> n, status |-> "Provisioning", agent_status |-> "None",
     port_allocations |-> {}, services |-> 0]

SlotNames(s) == {s[i].name : i \in DOMAIN s}

\* slots.iter().any(|s| s.name == name)
NameTaken(s, n) == \E i \in DOMAIN s : s[i].name = n

\* slots.iter().find(|s| s.name == name): the first record of that name.
FindSlot(s, n) ==
    CHOOSE i \in DOMAIN s : s[i].name = n /\ \A j \in 1..(i - 1) : s[j].name # n

\* The port numbers of a set of allocations.
PortsOf(allocs) == {a[2] : a \in allocs}

\* The ports held by the slots of a registry.
HeldPorts(s) == UNION {PortsOf(s[i].port_allocations) : i \in DOMAIN s}

\* slots.retain(|s| s.name != name)
Retain(s, n) == SelectSeq(s, LAMBDA x : x.name # n)

\* ------------------------------------------------------------------ tasks
NoLoc == [manifest |-> "none", prompt |-> FALSE, ports |-> {}, todo |-> {},
          cur |-> "none", found |-> FALSE, fails |-> {}, ao_sessions |-> {}]
NoRet == [task |-> 0, op |-> "none", name |-> "none", res |-> "none", at |-> "none",
          fails |-> {}, ports |-> {}]

\* The call of task t returns res from the step named at.
Return(t, op, res, at) ==
    /\ pc' = [pc EXCEPT ![t] = "idle"]
    /\ ret' = [task |-> t, op |-> op, name |-> arg[t], res |-> res, at |-> at,
               fails |-> loc[t].fails, ports |-> loc[t].ports]
    /\ loc' = [loc EXCEPT ![t] = NoLoc]
    /\ arg' = [arg EXCEPT ![t] = "none"]

Goto(t, label) == pc' = [pc EXCEPT ![t] = label]

Quiescent == \A t \in Tasks : pc[t] = "idle"

InitSlots ==
    /\ slots = <<>>
    /\ state_file = <<>>
    /\ allocated = {}
    /\ aspire_processes = {}
    /\ agent_tailer_handles = {}
    /\ clone_dirs = {}
    /\ tmux_sessions = {}
    /\ orphan_children = {}
    /\ detached_log_tasks = {}
    /\ aborting_log_tasks = {}
    /\ persist_failures = 0
    /\ pc = [t \in Tasks |-> "idle"]
    /\ arg = [t \in Tasks |-> "none"]
    /\ loc = [t \in Tasks |-> NoLoc]
    /\ ret = NoRet

InitFrames ==
    /\ written = <<>>
    /\ delivered = 0
    /\ reader = [pc |-> "channel", pos |-> 0, channel |-> 0, len |-> 0]
    /\ received = <<>>

\* run_host up to line 135: the child runs in the PTY, the listener is bound,
\* .agent-host.json is written, no client has connected.
InitHost ==
    /\ h_pc = "serving"
    /\ exit_code = -1
    /\ info_file = TRUE
    /\ pty_chunks = 0
    /\ pty_log = 0
    /\ cstate = [k \in Clients |-> "none"]
    /\ writer = [k \in Clients |-> "none"]
    /\ rx = [k \in Clients |-> [items |-> <<>>, lagged |-> FALSE]]
    /\ sock = [k \in Clients |-> <<>>]
    /\ got = [k \in Clients |-> <<>>]
    /\ pty_reader = "running"
    /\ host_status = <<>>
    /\ to_host = [k \in Clients |-> <<>>]

InitBatch ==
    /\ b_kind = "none"
    /\ b_targets = <<>>
    /\ b_total = 0
    /\ b_i = 0
    /\ b_pc = "idle"
    /\ b_events = <<>>
    /\ b_calls = <<>>


\* ------------------------------------------------------------------ inputs
RECURSIVE SeqsUpTo(_, _)
SeqsUpTo(S, n) ==
    IF n = 0 THEN {<<>>}
    ELSE SeqsUpTo(S, n - 1) \cup {Append(q, x) : q \in SeqsUpTo(S, n - 1), x \in S}

\* Option<T>: None is the empty sequence and Some(x) the sequence of x alone.
None == <<>>
Some(x) == <<x>>
\* Option::or and Option::unwrap_or.
Or(a, b) == IF a # None THEN a ELSE b
UnwrapOr(a, d) == IF a # None THEN a[1] ELSE d

\* A string is a sequence of pieces; the two template variables are pieces of
\* their own, every other piece is literal text.
VAR_SLOT_NAME == "{slot_name}"
VAR_BRANCH == "{branch}"
MAIN == <<"main">>

\* The blueprints tried.  A blueprint file is written by hand, so every field
\* takes every shape the YAML allows: absent, empty, plain, and text that
\* contains a template variable.  An entry differs from EntryBase, and a
\* defaults block from DefaultsBase, in one field.
MaxEntries == 2
AgentConfigs(v, n) ==
    [prompt_template : {None, Some(<<v, VAR_SLOT_NAME, VAR_BRANCH>>)},
     allowed_tools : {None, Some(<<v>>)},
     max_turns : {None, Some(n)}]
OptionBools == {None, Some(TRUE), Some(FALSE)}
OptionSources(v) == {None, Some(<<>>), Some(<<v>>)}
EntryBase ==
    [name |-> <<"s">>, branch |-> Some(<<"d">>), source |-> None,
     auto_start_aspire |-> None, auto_spawn_agent |-> None, agent |-> None]
DefaultsBase ==
    [source |-> Some(<<"q">>), auto_start_aspire |-> None, auto_spawn_agent |-> None,
     agent |-> Some([prompt_template |-> Some(<<"t", VAR_SLOT_NAME, VAR_BRANCH>>),
                     allowed_tools |-> Some(<<"t">>), max_turns |-> Some(50)])]
Entries ==
    {[EntryBase EXCEPT !.name = n] : n \in {<<>>, <<"s">>, <<VAR_BRANCH>>}}
    \cup {[EntryBase EXCEPT !.branch = b] : b \in {None, Some(<<"d">>)}}
    \cup {[EntryBase EXCEPT !.source = x] : x \in OptionSources("r")}
    \cup {[EntryBase EXCEPT !.auto_start_aspire = f] : f \in OptionBools}
    \cup {[EntryBase EXCEPT !.auto_spawn_agent = f] : f \in OptionBools}
    \cup {[EntryBase EXCEPT !.agent = a] : a \in {None} \cup {Some(c) : c \in AgentConfigs("e", 5)}}
DefaultsBlocks ==
    {[DefaultsBase EXCEPT !.source = x] : x \in OptionSources("q")}
    \cup {[DefaultsBase EXCEPT !.auto_start_aspire = f] : f \in OptionBools}
    \cup {[DefaultsBase EXCEPT !.auto_spawn_agent = f] : f \in OptionBools}
    \cup {[DefaultsBase EXCEPT !.agent = a] : a \in {None} \cup {Some(c) : c \in AgentConfigs("t", 50)}}
Blueprints ==
    [name : {<<>>, <<"b">>},
     defaults : {None} \cup {Some(d) : d \in DefaultsBlocks},
     slots : SeqsUpTo(Entries, MaxEntries)]

InitBlueprint ==
    /\ blueprint \in Blueprints
    /\ bp_ret = [op |-> "none"]

\* No blueprint has been handed to validate or resolve.
IdleBlueprint ==
    /\ blueprint = [name |-> <<>>, defaults |-> None, slots |-> <<>>]
    /\ bp_ret = [op |-> "none"]

\* BlueprintStore::new: nothing is created before the first save.
InitStore ==
    /\ blueprints_dir = [exists |-> FALSE, files |-> <<>>]
    /\ store_log = <<>>

\* No call of allocate is in progress.
InitAlloc ==
    /\ alloc_pc = "idle"
    /\ alloc_i = 0
    /\ alloc_before = {}
    /\ alloc_rejected = 0
    /\ alloc_ret = [res |-> "none"]

\* SlotStateStore::new: state.json is not there until the first save.
InitState ==
    /\ state_json = [kind |-> "absent"]
    /\ st_saved = None
    /\ st_ret = [op |-> "none"]

\* No log has been parsed.
IdleLog ==
    /\ log_lines = <<>>
    /\ log_cut = 0
    /\ log_short = [done |-> FALSE]
    /\ log_long = [done |-> FALSE]

\* No method is in progress and no guard is held.
InitLocks ==
    /\ lk_op = [t \in Tasks |-> "none"]
    /\ lk_arg = [t \in Tasks |-> "none"]
    /\ lk_pc = [t \in Tasks |-> 0]
    /\ lk_held = [t \in Tasks |-> {}]
    /\ lk_await = [t \in Tasks |-> "none"]
    /\ lk_procs = {}

\* start_tailing has just spawned the task; the log file is not there yet.
InitTail ==
    /\ tl_pc = "waiting"
    /\ tl_exists = FALSE
    /\ tl_file = <<>>
    /\ tl_pos = 0
    /\ tl_sent = <<>>
    /\ tl_appended = <<>>
    /\ tl_seen = FALSE
    /\ tl_closed = FALSE
    /\ tl_ops = 0

\* App::new with one Ready slot: no activity recorded.
InitAttn ==
    /\ at_now = 0
    /\ at_status = "Ready"
    /\ at_agent = "None"
    /\ at_stamps = <<>>
    /\ at_last = <<>>
    /\ at_attention = FALSE

\* No agent host of the slot has run and spawn has not been called.
InitSpawn ==
    /\ sp_pc = "idle"
    /\ sp_polls = 0
    /\ sp_ret = "none"
    /\ sp_info = "none"
    /\ sp_host = "none"
    /\ sp_earlier = "none"

\* The stack child of a slot has just been spawned: nothing written yet.
InitPipes ==
    /\ emitted = <<>>
    /\ pipe = [s \in Streams |-> <<>>]
    /\ line_chan = <<>>
    /\ log_chan = <<>>
    /\ event_chan = <<>>
    /\ log_buffer = <<>>
    /\ activity = [log_timestamps |-> 0, last_log_line |-> None]

InitCore == InitSlots /\ InitFrames /\ InitHost /\ InitBatch /\ InitLocks /\ InitPipes /\ InitSpawn /\ InitAttn /\ InitTail
Init == InitCore /\ IdleBlueprint /\ InitStore /\ InitAlloc /\ InitState /\ IdleLog

\* ------------------------------------------------------------------ persist
\* SlotManager::persist (lines 435-438) after a change of the registry to s:
\* the registry is read under the read lock and written to state.json.  The
\* write lock section that made the change and this persist are one step: the
\* lock is free in between, and what another task changes there reaches the
\* file with this write as it would with that task's own.
PersistOk(s) ==
    /\ state_file' = s
    /\ UNCHANGED persist_failures

\* state_store.save fails (state.rs 28-38): the file keeps its content.
PersistFails ==
    /\ persist_failures < MaxPersistFailures
    /\ persist_failures' = persist_failures + 1
    /\ UNCHANGED state_file

\* update_slot (lines 424-432) and the two other places that change the
\* registry and persist: the registry becomes s; when the write succeeds the
\* call goes on to next ("return": it returns Ok), else it returns Err(State).
ChangeAndPersist(t, op, at, s, next) ==
    /\ pc[t] = at
    /\ slots' = s
    /\ \/ /\ PersistOk(s)
          /\ IF next = "return"
             THEN Return(t, op, "Ok", at)
             ELSE Goto(t, next) /\ UNCHANGED <<arg, loc>> /\ ret' = NoRet
       \/ /\ PersistFails
          /\ Return(t, op, "State", at)
    /\ UNCHANGED <<allocated, aspire_processes, agent_tailer_handles,
                   clone_dirs, tmux_sessions, orphan_children, detached_log_tasks,
                      aborting_log_tasks>>
    /\ UNCHANGED <<frameVars, hostVars, batchVars, libVars>>

\* create_slot without the uniqueness check of lines 99-105.
CreateCheckNoLookup(t, n, m, p) ==
    /\ pc[t] = "idle"
    /\ Goto(t, "c_clone")
    /\ arg' = [arg EXCEPT ![t] = n]
    /\ loc' = [loc EXCEPT ![t] = [NoLoc EXCEPT !.manifest = m, !.prompt = p]]
    /\ ret' = NoRet
    /\ UNCHANGED <<slots, state_file, allocated, aspire_processes, agent_tailer_handles,
                   clone_dirs, tmux_sessions, orphan_children, detached_log_tasks,
                      aborting_log_tasks,
                   persist_failures>>
    /\ UNCHANGED <<frameVars, hostVars, batchVars, libVars>>

\* create_slot registering the slot as Provisioning once the clone exists.
CreateCloneRegistersFirst(t) ==
    /\ pc[t] = "c_clone"
    /\ \/ /\ arg[t] \notin clone_dirs
          /\ clone_dirs' = clone_dirs \cup {arg[t]}
          /\ slots' = Append(slots, SlotNew(arg[t]))
          /\ Goto(t, "c_checkout")
          /\ UNCHANGED <<arg, loc>> /\ ret' = NoRet
       \/ /\ Return(t, "create", "Git", "c_clone")
          /\ UNCHANGED <<clone_dirs, slots>>
    /\ UNCHANGED <<state_file, allocated, aspire_processes, agent_tailer_handles,
                   tmux_sessions, orphan_children, detached_log_tasks, aborting_log_tasks,
                      persist_failures>>
    /\ UNCHANGED <<frameVars, hostVars, batchVars, libVars>>

\* ------------------------------------------------------------------ create_slot
\* Lines 99-130: the uniqueness check under the read lock; the lock is released
\* before the clone starts.
CreateCheck(t, n, m, p) ==
    /\ pc[t] = "idle"
    /\ IF NameTaken(slots, n)
       THEN /\ pc' = pc
            /\ ret' = [task |-> t, op |-> "create", name |-> n, res |-> "SlotAlreadyExists",
                    at |-> "c_check", fails |-> {}, ports |-> {}]
            /\ UNCHANGED <<arg, loc>>
       ELSE /\ Goto(t, "c_clone")
            /\ arg' = [arg EXCEPT ![t] = n]
            /\ loc' = [loc EXCEPT ![t] = [NoLoc EXCEPT !.manifest = m, !.prompt = p]]
            /\ ret' = NoRet
    /\ UNCHANGED <<slots, state_file, allocated, aspire_processes, agent_tailer_handles,
                   clone_dirs, tmux_sessions, orphan_children, detached_log_tasks,
                      aborting_log_tasks,
                   persist_failures>>
    /\ UNCHANGED <<frameVars, hostVars, batchVars, libVars>>

\* Line 133: git clone refuses a target directory that exists and is not empty,
\* and can fail for other reasons; a failed clone leaves no directory.
CreateClone(t) ==
    /\ pc[t] = "c_clone"
    /\ \/ /\ arg[t] \notin clone_dirs
          /\ clone_dirs' = clone_dirs \cup {arg[t]}
          /\ Goto(t, "c_checkout")
          /\ UNCHANGED <<arg, loc>> /\ ret' = NoRet
       \/ /\ Return(t, "create", "Git", "c_clone")
          /\ UNCHANGED clone_dirs
    /\ UNCHANGED <<slots, state_file, allocated, aspire_processes, agent_tailer_handles,
                   tmux_sessions, orphan_children, detached_log_tasks, aborting_log_tasks,
                      persist_failures>>
    /\ UNCHANGED <<frameVars, hostVars, batchVars, libVars>>

\* create_slot returning the loader's error for a missing manifest as well.
CreateCheckoutSurfacesMissing(t) ==
    /\ pc[t] = "c_checkout"
    /\ \/ Return(t, "create", "Git", "c_checkout")
       \/ /\ loc[t].manifest = "invalid"
          /\ Return(t, "create", "InvalidConfig", "c_config")
       \/ /\ loc[t].manifest = "none"
          /\ Return(t, "create", "ConfigNotFound", "c_config")
       \/ /\ loc[t].manifest \notin {"none", "invalid"}
          /\ Goto(t, "c_alloc")
          /\ loc' = [loc EXCEPT ![t].todo = port_overrides(loc[t].manifest)]
          /\ UNCHANGED <<arg>> /\ ret' = NoRet
    /\ UNCHANGED <<slots, state_file, allocated, aspire_processes, agent_tailer_handles,
                   clone_dirs, tmux_sessions, orphan_children, detached_log_tasks,
                      aborting_log_tasks,
                   persist_failures>>
    /\ UNCHANGED <<frameVars, hostVars, batchVars, libVars>>

\* Lines 136-156: branch check and checkout (or reading the current branch), then
\* the manifest is loaded: a missing manifest is skipped, any other loader error
\* is returned, a valid one starts the port allocation.
CreateCheckout(t) ==
    /\ pc[t] = "c_checkout"
    /\ \/ Return(t, "create", "Git", "c_checkout")
       \/ /\ loc[t].manifest = "invalid"
          /\ Return(t, "create", "InvalidConfig", "c_config")
       \/ /\ loc[t].manifest = "none"
          /\ Goto(t, "c_tmux")
          /\ UNCHANGED <<arg, loc>> /\ ret' = NoRet
       \/ /\ loc[t].manifest \notin {"none", "invalid"}
          /\ Goto(t, "c_alloc")
          /\ loc' = [loc EXCEPT ![t].todo = port_overrides(loc[t].manifest)]
          /\ UNCHANGED <<arg>> /\ ret' = NoRet
    /\ UNCHANGED <<slots, state_file, allocated, aspire_processes, agent_tailer_handles,
                   clone_dirs, tmux_sessions, orphan_children, detached_log_tasks,
                      aborting_log_tasks,
                   persist_failures>>
    /\ UNCHANGED <<frameVars, hostVars, batchVars, libVars>>

\* allocate_for_overrides taking every pinned port without looking it up.
CreateAllocPinnedNoLookup(t) ==
    /\ pc[t] = "c_alloc"
    /\ IF loc[t].todo = {}
       THEN /\ Goto(t, "c_tmux")
            /\ UNCHANGED <<allocated, loc, arg>> /\ ret' = NoRet
       ELSE \E o \in loc[t].todo :
              /\ allocated' = allocated \cup {o[2]}
              /\ loc' = [loc EXCEPT ![t].ports = @ \cup {o}, ![t].todo = @ \ {o}]
              /\ UNCHANGED <<pc, arg>> /\ ret' = NoRet
    /\ UNCHANGED <<slots, state_file, aspire_processes, agent_tailer_handles,
                   clone_dirs, tmux_sessions, orphan_children, detached_log_tasks,
                      aborting_log_tasks,
                   persist_failures>>
    /\ UNCHANGED <<frameVars, hostVars, batchVars, libVars>>

\* ports.rs 40-52, one iteration of allocate_for_overrides: under the mutex, a
\* pinned port that is not tracked is inserted and taken; a tracked one drops
\* the mutex and goes on to allocate().  HashMap iteration order is arbitrary.
CreateAllocPinned(t) ==
    /\ pc[t] = "c_alloc"
    /\ IF loc[t].todo = {}
       THEN /\ Goto(t, "c_tmux")
            /\ UNCHANGED <<allocated, loc, arg>> /\ ret' = NoRet
       ELSE \E o \in loc[t].todo :
              IF o[2] \in allocated
              THEN /\ Goto(t, "c_alloc_rand")
                   /\ loc' = [loc EXCEPT ![t].cur = o[1], ![t].todo = @ \ {o}]
                   /\ UNCHANGED <<allocated, arg>> /\ ret' = NoRet
              ELSE /\ allocated' = allocated \cup {o[2]}
                   /\ loc' = [loc EXCEPT ![t].ports = @ \cup {o}, ![t].todo = @ \ {o}]
                   /\ UNCHANGED <<pc, arg>> /\ ret' = NoRet
    /\ UNCHANGED <<slots, state_file, aspire_processes, agent_tailer_handles,
                   clone_dirs, tmux_sessions, orphan_children, detached_log_tasks,
                      aborting_log_tasks,
                   persist_failures>>
    /\ UNCHANGED <<frameVars, hostVars, batchVars, libVars>>

\* ports.rs 19-33, allocate(): under the mutex, the first OS-provided port that
\* is not tracked is inserted and returned; the call fails when the bind fails
\* or every candidate was tracked.  The error leaves create_slot through `?`.
CreateAllocRandom(t) ==
    /\ pc[t] = "c_alloc_rand"
    /\ \/ \E p \in Ports \ allocated :
            /\ allocated' = allocated \cup {p}
            /\ loc' = [loc EXCEPT ![t].ports = @ \cup {<<loc[t].cur, p>>}, ![t].cur = "none"]
            /\ Goto(t, "c_alloc")
            /\ UNCHANGED <<arg>> /\ ret' = NoRet
       \/ /\ Return(t, "create", "PortAllocation", "c_alloc_rand")
          /\ UNCHANGED allocated
    /\ UNCHANGED <<slots, state_file, aspire_processes, agent_tailer_handles,
                   clone_dirs, tmux_sessions, orphan_children, detached_log_tasks,
                      aborting_log_tasks,
                   persist_failures>>
    /\ UNCHANGED <<frameVars, hostVars, batchVars, libVars>>

\* Lines 159-170: the tmux session is created (tmux refuses a duplicate session
\* name), its windows are set up and the manifest's setup commands are sent;
\* every one of these can fail, also after the session exists.
CreateTmux(t) ==
    /\ pc[t] = "c_tmux"
    /\ \/ /\ Return(t, "create", "Tmux", "c_tmux")
          /\ UNCHANGED tmux_sessions
       \/ /\ arg[t] \notin tmux_sessions
          /\ tmux_sessions' = tmux_sessions \cup {arg[t]}
          /\ \/ Return(t, "create", "Tmux", "c_setup")
             \/ /\ Goto(t, "c_push")
                /\ UNCHANGED <<arg, loc>> /\ ret' = NoRet
    /\ UNCHANGED <<slots, state_file, allocated, aspire_processes, agent_tailer_handles,
                   clone_dirs, orphan_children, detached_log_tasks, aborting_log_tasks,
                      persist_failures>>
    /\ UNCHANGED <<frameVars, hostVars, batchVars, libVars>>

\* Lines 172-178: the record becomes Ready and is pushed under the write lock.
CreatePush(t) ==
    ChangeAndPersist(t, "create", "c_push",
        Append(slots, [SlotNew(arg[t]) EXCEPT !.status = "Ready",
                           !.port_allocations = loc[t].ports]),
        IF loc[t].prompt THEN "a_get" ELSE "return")

\* ------------------------------------------------------------------ update_slot
\* Lines 426-429: under the write lock, the first record named n is changed;
\* a missing record is not an error.
SetStatus(s, n, st) ==
    IF NameTaken(s, n) THEN [s EXCEPT ![FindSlot(s, n)].status = st] ELSE s

SetAgentStatus(s, n, st) ==
    IF NameTaken(s, n) THEN [s EXCEPT ![FindSlot(s, n)].agent_status = st] ELSE s

\* Lines 290-294: status Ready and services = Default::default().
SetStopped(s, n) ==
    IF NameTaken(s, n)
    THEN [s EXCEPT ![FindSlot(s, n)].status = "Ready", ![FindSlot(s, n)].services = 0]
    ELSE s

\* Line 248: s.services = services.
SetServices(s, n, v) ==
    IF NameTaken(s, n) THEN [s EXCEPT ![FindSlot(s, n)].services = v] ELSE s

\* ------------------------------------------------------------------ spawn_agent
\* The operation a spawn_agent step reports to: create_slot when it runs as
\* create_slot's auto-spawn (line 184, where `?` passes its error on).
AgentOp(t) == IF loc[t].prompt THEN "create" ELSE "spawn_agent"

\* Lines 308-311: get_slot or SlotNotFound.
AgentCall(t, n) ==
    /\ pc[t] = "idle"
    /\ IF NameTaken(slots, n)
       THEN /\ Goto(t, "a_starting")
            /\ arg' = [arg EXCEPT ![t] = n]
            /\ UNCHANGED <<loc>> /\ ret' = NoRet
       ELSE /\ pc' = pc
            /\ ret' = [task |-> t, op |-> "spawn_agent", name |-> n, res |-> "SlotNotFound",
                    at |-> "a_get", fails |-> {}, ports |-> {}]
            /\ UNCHANGED <<arg, loc>>
    /\ UNCHANGED <<slots, state_file, allocated, aspire_processes, agent_tailer_handles,
                   clone_dirs, tmux_sessions, orphan_children, detached_log_tasks,
                      aborting_log_tasks,
                   persist_failures>>
    /\ UNCHANGED <<frameVars, hostVars, batchVars, libVars>>

\* The same lookup when create_slot calls spawn_agent.
AgentGet(t) ==
    /\ pc[t] = "a_get"
    /\ IF NameTaken(slots, arg[t])
       THEN Goto(t, "a_starting") /\ UNCHANGED <<arg, loc>> /\ ret' = NoRet
       ELSE Return(t, AgentOp(t), "SlotNotFound", "a_get")
    /\ UNCHANGED <<slots, state_file, allocated, aspire_processes, agent_tailer_handles,
                   clone_dirs, tmux_sessions, orphan_children, detached_log_tasks,
                      aborting_log_tasks,
                   persist_failures>>
    /\ UNCHANGED <<frameVars, hostVars, batchVars, libVars>>

\* Line 313: agent_status = Starting.
AgentStarting(t) ==
    ChangeAndPersist(t, AgentOp(t), "a_starting",
        SetAgentStatus(slots, arg[t], "Starting"), "a_spawn")

\* Line 316: agent::spawn (tmux pipe-pane and send-keys); its error returns.
AgentSpawn(t) ==
    /\ pc[t] = "a_spawn"
    /\ \/ Return(t, AgentOp(t), "Tmux", "a_spawn")
       \/ Goto(t, "a_tailer") /\ UNCHANGED <<arg, loc>> /\ ret' = NoRet
    /\ UNCHANGED <<slots, state_file, allocated, aspire_processes, agent_tailer_handles,
                   clone_dirs, tmux_sessions, orphan_children, detached_log_tasks,
                      aborting_log_tasks,
                   persist_failures>>
    /\ UNCHANGED <<frameVars, hostVars, batchVars, libVars>>

\* Lines 319-332: the tailer is started and its handle replaces (and aborts)
\* the one stored under the name.
AgentTailer(t) ==
    /\ pc[t] = "a_tailer"
    /\ agent_tailer_handles' = agent_tailer_handles \cup {arg[t]}
    /\ Goto(t, "a_active")
    /\ UNCHANGED <<slots, state_file, allocated, aspire_processes,
                   clone_dirs, tmux_sessions, orphan_children, detached_log_tasks,
                      aborting_log_tasks,
                   persist_failures, arg, loc>> /\ ret' = NoRet
    /\ UNCHANGED <<frameVars, hostVars, batchVars, libVars>>

\* Lines 334-338: agent_status = Active.
AgentActive(t) ==
    ChangeAndPersist(t, AgentOp(t), "a_active",
        SetAgentStatus(slots, arg[t], "Active"), "return")

\* ------------------------------------------------------------------ start_aspire
\* Lines 193-199: get_slot or SlotNotFound, then the manifest of the clone is
\* loaded (the clone is a working tree: the file may be missing or broken).
StartCall(t, n) ==
    /\ pc[t] = "idle"
    /\ \/ /\ ~NameTaken(slots, n)
          /\ pc' = pc
          /\ ret' = [task |-> t, op |-> "start", name |-> n, res |-> "SlotNotFound",
                    at |-> "s_get", fails |-> {}, ports |-> {}]
          /\ UNCHANGED <<arg, loc>>
       \/ /\ NameTaken(slots, n)
          /\ \E e \in {"ConfigNotFound", "InvalidConfig"} :
               /\ pc' = pc
               /\ ret' = [task |-> t, op |-> "start", name |-> n, res |-> e,
                    at |-> "s_config", fails |-> {}, ports |-> {}]
               /\ UNCHANGED <<arg, loc>>
       \/ /\ NameTaken(slots, n)
          /\ Goto(t, "s_starting")
          /\ arg' = [arg EXCEPT ![t] = n]
          /\ UNCHANGED <<loc>> /\ ret' = NoRet
    /\ UNCHANGED <<slots, state_file, allocated, aspire_processes, agent_tailer_handles,
                   clone_dirs, tmux_sessions, orphan_children, detached_log_tasks,
                      aborting_log_tasks,
                   persist_failures>>
    /\ UNCHANGED <<frameVars, hostVars, batchVars, libVars>>

\* Line 202: status = Starting.
StartStarting(t) ==
    ChangeAndPersist(t, "start", "s_starting",
        SetStatus(slots, arg[t], "Starting"), "s_spawn")

\* Lines 206-252: aspire::start spawns the child or fails; on success the log
\* task is spawned at once and runs from then on.
StartSpawn(t) ==
    /\ pc[t] = "s_spawn"
    /\ \/ Return(t, "start", "Aspire", "s_spawn")
       \/ Goto(t, "s_insert") /\ UNCHANGED <<arg, loc>> /\ ret' = NoRet
    /\ UNCHANGED <<slots, state_file, allocated, aspire_processes, agent_tailer_handles,
                   clone_dirs, tmux_sessions, orphan_children, detached_log_tasks,
                      aborting_log_tasks,
                   persist_failures>>
    /\ UNCHANGED <<frameVars, hostVars, batchVars, libVars>>

\* Lines 255-264: procs.insert(name, AspireProcess{..}).  A value already stored
\* under the name is dropped: its child keeps running (no kill_on_drop) and its
\* log task is detached, not aborted.
StartInsert(t) ==
    /\ pc[t] = "s_insert"
    /\ aspire_processes' = aspire_processes \cup {arg[t]}
    /\ IF arg[t] \in aspire_processes
       THEN /\ orphan_children' = orphan_children \cup {arg[t]}
            /\ detached_log_tasks' = detached_log_tasks \cup {arg[t]}
       ELSE UNCHANGED <<orphan_children, detached_log_tasks>>
    /\ UNCHANGED aborting_log_tasks
    /\ Goto(t, "s_running")
    /\ UNCHANGED <<slots, state_file, allocated, agent_tailer_handles,
                   clone_dirs, tmux_sessions, persist_failures, arg, loc>> /\ ret' = NoRet
    /\ UNCHANGED <<frameVars, hostVars, batchVars, libVars>>

\* Lines 267-270: status = Running.
StartRunning(t) ==
    ChangeAndPersist(t, "start", "s_running",
        SetStatus(slots, arg[t], "Running"), "return")

\* Lines 220-252, the log task of a stack child of slot n: a line in which
\* discovery finds a URL makes it write the services of the first record named
\* n, under the write lock; it does not persist.
LogTaskAlive(n) ==
    \/ n \in aspire_processes
    \/ n \in detached_log_tasks
    \/ \E t \in Tasks : pc[t] = "s_insert" /\ arg[t] = n

\* A task that was aborted while a poll of it was running goes on to the next
\* await that is not ready: the poll ends there, with or without the write
\* of lines 245-250 on its way, and the task is gone.
LogTaskWrite(n) ==
    /\ \/ /\ LogTaskAlive(n)
          /\ NameTaken(slots, n)
          /\ slots[FindSlot(slots, n)].services = 0
          /\ slots' = SetServices(slots, n, 1)
          /\ UNCHANGED aborting_log_tasks
       \/ /\ n \in aborting_log_tasks
          /\ aborting_log_tasks' = aborting_log_tasks \ {n}
          /\ \/ slots' = SetServices(slots, n, 1)
             \/ UNCHANGED slots
    /\ UNCHANGED <<state_file, allocated, aspire_processes, agent_tailer_handles,
                   clone_dirs, tmux_sessions, orphan_children, detached_log_tasks,
                   persist_failures, pc, arg, loc>> /\ ret' = NoRet
    /\ UNCHANGED <<frameVars, hostVars, batchVars, libVars>>

\* ------------------------------------------------------------------ stop_aspire
\* Line 278: status = Stopping; there is no lookup first.
StopCall(t, n) ==
    /\ pc[t] = "idle"
    /\ slots' = SetStatus(slots, n, "Stopping")
    /\ \/ /\ PersistOk(slots')
          /\ Goto(t, "st_kill")
          /\ arg' = [arg EXCEPT ![t] = n]
          /\ ret' = NoRet
       \/ /\ PersistFails
          /\ pc' = pc
          /\ ret' = [task |-> t, op |-> "stop", name |-> n, res |-> "State",
                    at |-> "st_stopping", fails |-> {}, ports |-> {}]
          /\ UNCHANGED arg
    /\ UNCHANGED <<allocated, aspire_processes, agent_tailer_handles,
                   clone_dirs, tmux_sessions, orphan_children, detached_log_tasks,
                      aborting_log_tasks, loc>>
    /\ UNCHANGED <<frameVars, hostVars, batchVars, libVars>>

\* What stop_aspire does when aspire::stop fails (line 285): `?` returns the
\* error; the removed AspireProcess is dropped, so the child that was not
\* killed and its log task live on with nothing referring to them.
StopKillFailed(t) ==
    /\ orphan_children' = orphan_children \cup {arg[t]}
    /\ detached_log_tasks' = detached_log_tasks \cup {arg[t]}
    /\ UNCHANGED aborting_log_tasks
    /\ Return(t, "stop", "Aspire", "st_kill")
    /\ UNCHANGED slots

\* JoinHandle::abort (lines 286 and 373): a task suspended at an await is
\* cancelled there; a task whose poll is running on another worker is
\* cancelled when that poll returns.
AbortLogTask(n) ==
    \/ UNCHANGED aborting_log_tasks
    \/ aborting_log_tasks' = aborting_log_tasks \cup {n}

\* Lines 282-288: the entry is removed and the child killed; then the log task
\* is aborted.
StopKill(t) ==
    /\ pc[t] = "st_kill"
    /\ IF arg[t] \in aspire_processes
       THEN /\ aspire_processes' = aspire_processes \ {arg[t]}
            /\ \/ /\ Goto(t, "st_ready")
                  /\ AbortLogTask(arg[t])
                  /\ UNCHANGED <<slots, orphan_children, detached_log_tasks, arg, loc>>
                  /\ ret' = NoRet
               \/ StopKillFailed(t)
       ELSE /\ Goto(t, "st_ready")
            /\ UNCHANGED <<slots, aspire_processes, orphan_children, detached_log_tasks,
                           aborting_log_tasks, arg, loc>> /\ ret' = NoRet
    /\ UNCHANGED <<state_file, allocated, agent_tailer_handles,
                   clone_dirs, tmux_sessions, persist_failures>>
    /\ UNCHANGED <<frameVars, hostVars, batchVars, libVars>>

\* Lines 290-295: status = Ready, started_at and services cleared.
StopReady(t) ==
    ChangeAndPersist(t, "stop", "st_ready", SetStopped(slots, arg[t]), "return")

\* ------------------------------------------------------------------ destroy_slot
\* Lines 369-375: the stack entry is removed; the result of the kill is
\* discarded and the log task aborted.  A child that could not be killed
\* lives on.
DestroyCall(t, n) ==
    /\ pc[t] = "idle"
    /\ arg' = [arg EXCEPT ![t] = n]
    /\ ret' = NoRet
    /\ Goto(t, "d_tailer")
    /\ aspire_processes' = aspire_processes \ {n}
    /\ \/ UNCHANGED <<orphan_children, loc>>
       \/ /\ n \in aspire_processes
          /\ orphan_children' = orphan_children \cup {n}
          /\ loc' = [loc EXCEPT ![t].fails = @ \cup {"kill"}]
    /\ IF n \in aspire_processes THEN AbortLogTask(n) ELSE UNCHANGED aborting_log_tasks
    /\ UNCHANGED <<slots, state_file, allocated, agent_tailer_handles,
                   clone_dirs, tmux_sessions, detached_log_tasks, persist_failures>>
    /\ UNCHANGED <<frameVars, hostVars, batchVars, libVars>>

\* Lines 378-383: the tailer handle is removed and aborted.
DestroyTailer(t) ==
    /\ pc[t] = "d_tailer"
    /\ agent_tailer_handles' = agent_tailer_handles \ {arg[t]}
    /\ Goto(t, "d_get")
    /\ UNCHANGED <<slots, state_file, allocated, aspire_processes,
                   clone_dirs, tmux_sessions, orphan_children, detached_log_tasks,
                      aborting_log_tasks,
                   persist_failures, arg, loc>> /\ ret' = NoRet
    /\ UNCHANGED <<frameVars, hostVars, batchVars, libVars>>

\* Line 386: the snapshot of the record (get_slot), kept for the steps below.
DestroyGet(t) ==
    /\ pc[t] = "d_get"
    /\ IF NameTaken(slots, arg[t])
       THEN loc' = [loc EXCEPT ![t].found = TRUE,
                       ![t].ports = slots[FindSlot(slots, arg[t])].port_allocations]
       ELSE UNCHANGED loc
    /\ Goto(t, "d_tmux")
    /\ UNCHANGED <<slots, state_file, allocated, aspire_processes, agent_tailer_handles,
                   clone_dirs, tmux_sessions, orphan_children, detached_log_tasks,
                      aborting_log_tasks,
                   persist_failures, arg>> /\ ret' = NoRet
    /\ UNCHANGED <<frameVars, hostVars, batchVars, libVars>>

\* Lines 387-389: tmux kill-session, its result discarded.
DestroyTmux(t) ==
    /\ pc[t] = "d_tmux"
    /\ Goto(t, "d_rmdir")
    /\ \/ /\ loc[t].found
          /\ tmux_sessions' = tmux_sessions \ {arg[t]}
          /\ UNCHANGED loc
       \/ /\ loc[t].found
          /\ loc' = [loc EXCEPT ![t].fails = @ \cup {"tmux"}]
          /\ UNCHANGED tmux_sessions
       \/ /\ ~loc[t].found
          /\ UNCHANGED <<tmux_sessions, loc>>
    /\ UNCHANGED <<slots, state_file, allocated, aspire_processes, agent_tailer_handles,
                   clone_dirs, orphan_children, detached_log_tasks, aborting_log_tasks,
                   persist_failures, arg>> /\ ret' = NoRet
    /\ UNCHANGED <<frameVars, hostVars, batchVars, libVars>>

\* Lines 392-397: remove_dir_all when the directory exists, its result discarded.
DestroyRmdir(t) ==
    /\ pc[t] = "d_rmdir"
    /\ Goto(t, "d_release")
    /\ \/ /\ loc[t].found
          /\ clone_dirs' = clone_dirs \ {arg[t]}
          /\ UNCHANGED loc
       \/ /\ loc[t].found /\ arg[t] \in clone_dirs
          /\ loc' = [loc EXCEPT ![t].fails = @ \cup {"rmdir"}]
          /\ UNCHANGED clone_dirs
       \/ /\ ~loc[t].found
          /\ UNCHANGED <<clone_dirs, loc>>
    /\ UNCHANGED <<slots, state_file, allocated, aspire_processes, agent_tailer_handles,
                   tmux_sessions, orphan_children, detached_log_tasks, aborting_log_tasks,
                   persist_failures, arg>> /\ ret' = NoRet
    /\ UNCHANGED <<frameVars, hostVars, batchVars, libVars>>

\* destroy_slot without the release loop of lines 400-404.
ReleaseNone(alloc, allocations) == alloc

\* ports.rs 57-60 for every allocation of the snapshot (lines 400-404).
ReleaseAll(alloc, allocations) == alloc \ PortsOf(allocations)

DestroyRelease(t) ==
    /\ pc[t] = "d_release"
    /\ allocated' = IF loc[t].found THEN ReleaseAll(allocated, loc[t].ports) ELSE allocated
    /\ Goto(t, "d_retain")
    /\ UNCHANGED <<slots, state_file, aspire_processes, agent_tailer_handles,
                   clone_dirs, tmux_sessions, orphan_children, detached_log_tasks,
                      aborting_log_tasks,
                   persist_failures, arg, loc>> /\ ret' = NoRet
    /\ UNCHANGED <<frameVars, hostVars, batchVars, libVars>>

\* Lines 407-410: every record of that name leaves the registry.
DestroyRetain(t) ==
    ChangeAndPersist(t, "destroy", "d_retain", Retain(slots, arg[t]), "return")

\* ------------------------------------------------------------------ specifications
\* The steps that follow the call, per operation.
CreateSteps(t) ==
    \/ CreateClone(t)
    \/ CreateCheckout(t)
    \/ CreateAllocPinned(t)
    \/ CreateTmux(t)
    \/ CreatePush(t)

AgentSteps(t) ==
    \/ AgentGet(t)
    \/ AgentStarting(t)
    \/ AgentSpawn(t)
    \/ AgentTailer(t)
    \/ AgentActive(t)

StartSteps(t) ==
    \/ StartStarting(t)
    \/ StartSpawn(t)
    \/ StartInsert(t)
    \/ StartRunning(t)

StopSteps(t) ==
    \/ StopKill(t)
    \/ StopReady(t)

DestroySteps(t) ==
    \/ DestroyTailer(t)
    \/ DestroyGet(t)
    \/ DestroyTmux(t)
    \/ DestroyRmdir(t)
    \/ DestroyRelease(t)
    \/ DestroyRetain(t)

\* Spec: one caller runs every operation, one call after the other, on the
\* slot name "a", with every failure of every step.  (With one name and one
\* caller a pinned port is never found tracked, so allocate() is not reached.)
Next ==
    \/ \E m \in Manifests, p \in BOOLEAN : CreateCheck(1, "a", m, p)
    \/ CreateSteps(1)
    \/ AgentCall(1, "a")
    \/ AgentSteps(1)
    \/ StartCall(1, "a")
    \/ StartSteps(1)
    \/ LogTaskWrite("a")
    \/ StopCall(1, "a")
    \/ StopSteps(1)
    \/ DestroyCall(1, "a")
    \/ DestroySteps(1)

Spec == Init /\ [][Next]_vars

\* SpecPorts: one caller creates and destroys the slots "a" and "b" from clones
\* with every kind of manifest.
NextPorts ==
    \/ \E n \in Names, m \in Manifests : CreateCheck(1, n, m, FALSE)
    \/ CreateSteps(1)
    \/ CreateAllocRandom(1)
    \/ \E n \in Names : DestroyCall(1, n)
    \/ DestroySteps(1)

SpecPorts == Init /\ [][NextPorts]_vars

\* SpecRace: two tasks create and destroy the slot "a" concurrently, from a
\* clone without manifest.
NextRace ==
    \E t \in Tasks :
        \/ CreateCheck(t, "a", "none", FALSE)
        \/ CreateClone(t)
        \/ CreateCheckout(t)
        \/ CreateTmux(t)
        \/ CreatePush(t)
        \/ DestroyCall(t, "a")
        \/ DestroySteps(t)

SpecRace == Init /\ [][NextRace]_vars

\* SpecTeardown: the slot "a" is created, its stack started and its agent
\* spawned by one task, again and again, while a second task destroys it.
NextTeardown ==
    \/ CreateCheck(1, "a", "none", FALSE)
    \/ CreateClone(1)
    \/ CreateCheckout(1)
    \/ CreateTmux(1)
    \/ CreatePush(1)
    \/ StartCall(1, "a")
    \/ StartSteps(1)
    \/ AgentCall(1, "a")
    \/ AgentStarting(1)
    \/ AgentSpawn(1)
    \/ AgentTailer(1)
    \/ AgentActive(1)
    \/ DestroyCall(2, "a")
    \/ DestroySteps(2)

SpecTeardown == Init /\ [][NextTeardown]_vars

\* SpecOverrides: two tasks create the slots "a" and "b" concurrently, from
\* clones whose manifests pin ports that overlap, within one manifest and
\* between the two.
NextOverrides ==
    \/ \E m \in {"pinned1", "pinned2", "pinned_same"} :
          CreateCheck(1, "a", m, FALSE) \/ CreateCheck(2, "b", m, FALSE)
    \/ \E t \in Tasks :
          \/ CreateClone(t)
          \/ CreateCheckout(t)
          \/ CreateAllocPinned(t)
          \/ CreateAllocRandom(t)
          \/ CreateTmux(t)
          \/ CreatePush(t)

SpecOverrides == Init /\ [][NextOverrides]_vars

\* ------------------------------------------------------------------ restart
\* main.rs 102-104: a new process builds a SlotManager (empty allocator, empty
\* maps), load_state replaces the registry by the list of state.json
\* (slot_manager.rs 51-56) and reconnect_existing_sessions (59-77) resets the
\* status and agent status of every slot whose tmux session is gone, then
\* persists.  The stack children of the old process keep running; its tasks
\* end with it.
\* Slot::tmux_session (slot.rs 74-76): "ao-" followed by the slot's name.  A
\* session name is the pair of its first three characters and the rest.
AO == "ao-"
tmux_session(n) == <<AO, n>>

\* Sessions of the tmux server that belong to no slot.
ForeignSessions == {<<"my-", "a">>}

\* tmux::list_sessions (tmux.rs 39-46) when it succeeds.
list_sessions == {tmux_session(n) : n \in tmux_sessions} \cup ForeignSessions

\* slot_manager.rs 61-65: the sessions that start with "ao-", the session
\* "ao-orchestrator" left out, without their first three characters.
ao_sessions(sessions) ==
    {x[2] : x \in {y \in sessions : y[1] = AO /\ y # <<AO, "orchestrator">>}}

\* slot_manager.rs 67-73: the slots whose name is not among the sessions
\* found become Ready with no agent.
ResetMissing(s, found) ==
    [i \in DOMAIN s |->
        IF s[i].name \in found THEN s[i]
        ELSE [s[i] EXCEPT !.status = "Ready", !.agent_status = "None"]]

Reconnected(s) == ResetMissing(s, ao_sessions(list_sessions))

Restart ==
    /\ Quiescent
    /\ slots' = Reconnected(state_file)
    /\ state_file' = Reconnected(state_file)
    /\ allocated' = {}
    /\ aspire_processes' = {}
    /\ agent_tailer_handles' = {}
    /\ orphan_children' = orphan_children \cup aspire_processes
    /\ detached_log_tasks' = {}
    /\ aborting_log_tasks' = {}
    /\ ret' = NoRet
    /\ UNCHANGED <<clone_dirs, tmux_sessions, persist_failures, pc, arg, loc>>
    /\ UNCHANGED <<frameVars, hostVars, batchVars, libVars>>

\* The steps of load_state and reconnect_existing_sessions one by one, with
\* their failures.  load_state (slot_manager.rs 51-56): the registry becomes
\* the list of state.json, or the file cannot be read or parsed (state.rs
\* 21-24) and the error is returned.
LoadState(t) ==
    /\ pc[t] = "load_state"
    /\ \/ /\ slots' = state_file
          /\ Goto(t, "r_list")
          /\ UNCHANGED <<arg, loc>>
          /\ ret' = NoRet
       \/ /\ Return(t, "load_state", "State", "load_state")
          /\ UNCHANGED slots
    /\ UNCHANGED <<state_file, allocated, aspire_processes, agent_tailer_handles,
                   clone_dirs, tmux_sessions, orphan_children, detached_log_tasks,
                   aborting_log_tasks, persist_failures>>
    /\ UNCHANGED <<frameVars, hostVars, batchVars, libVars>>

\* slot_manager.rs 60-65: tmux::list_sessions().await.unwrap_or_default():
\* when tmux fails the set of sessions is empty.
ReconnectList(t) ==
    /\ pc[t] = "r_list"
    /\ \E ok \in BOOLEAN :
          loc' = [loc EXCEPT ![t].ao_sessions =
                      IF ok THEN ao_sessions(list_sessions) ELSE {}]
    /\ Goto(t, "r_reset")
    /\ ret' = NoRet
    /\ UNCHANGED <<slots, state_file, allocated, aspire_processes, agent_tailer_handles,
                   clone_dirs, tmux_sessions, orphan_children, detached_log_tasks,
                   aborting_log_tasks, persist_failures, arg>>
    /\ UNCHANGED <<frameVars, hostVars, batchVars, libVars>>

\* slot_manager.rs 67-76: the reset under the write lock, then persist.
ReconnectReset(t) ==
    ChangeAndPersist(t, "reconnect_existing_sessions", "r_reset",
                     ResetMissing(slots, loc[t].ao_sessions), "return")

\* What state.json may hold when a process starts: up to two slots, of the
\* names "a" and "orchestrator", at rest or with a running stack, without or
\* with an agent.
ReconnectNames == {"a", "orchestrator"}
PersistedSlot(n, st, ag) == [SlotNew(n) EXCEPT !.status = st, !.agent_status = ag]
PersistedSlots ==
    {PersistedSlot(n, st, ag) :
        n \in ReconnectNames, st \in {"Ready", "Running"}, ag \in {"None", "Active"}}
PersistedLists ==
    {<<>>} \cup {<<x>> : x \in PersistedSlots}
           \cup {<<p[1], p[2]>> :
                    p \in {q \in PersistedSlots \X PersistedSlots : q[1].name # q[2].name}}

\* SpecReconnect: a new process (main.rs 102-104) over a state.json and a set
\* of tmux sessions left by an earlier one.
InitReconnect ==
    /\ slots = <<>>
    /\ state_file \in PersistedLists
    /\ tmux_sessions \in SUBSET ReconnectNames
    /\ allocated = {}
    /\ aspire_processes = {}
    /\ agent_tailer_handles = {}
    /\ clone_dirs = {}
    /\ orphan_children = {}
    /\ detached_log_tasks = {}
    /\ aborting_log_tasks = {}
    /\ persist_failures = 0
    /\ pc = [t \in Tasks |-> IF t = 1 THEN "load_state" ELSE "idle"]
    /\ arg = [t \in Tasks |-> "none"]
    /\ loc = [t \in Tasks |-> NoLoc]
    /\ ret = NoRet
    /\ InitFrames /\ InitHost /\ InitBatch /\ InitLocks /\ InitPipes /\ InitSpawn
    /\ InitAttn /\ InitTail
    /\ IdleBlueprint /\ InitStore /\ InitAlloc /\ InitState /\ IdleLog

NextReconnect ==
    \/ LoadState(1)
    \/ ReconnectList(1)
    \/ ReconnectReset(1)

SpecReconnect == InitReconnect /\ [][NextReconnect]_vars

\* SpecRestart: one caller creates and destroys the slots "a" and "b"; the
\* process is ended and started again between calls.
NextRestart ==
    \/ \E n \in Names, m \in Manifests : CreateCheck(1, n, m, FALSE)
    \/ CreateSteps(1)
    \/ CreateAllocRandom(1)
    \/ \E n \in Names : DestroyCall(1, n)
    \/ DestroySteps(1)
    \/ Restart

SpecRestart == Init /\ [][NextRestart]_vars

\* ------------------------------------------------------------------ framing
\* One connection carries the frames of write_frame to read_frame.  The byte
\* stream is the concatenation of the frames written; a payload is given by
\* its length, its bytes being PayloadByte; the stream reaches the reader in
\* arbitrary pieces.
Min(a, b) == IF a < b THEN a ELSE b

\* Byte j of the payload handed to the k-th write_frame.
PayloadByte(k, j) == (31 * k + j) % 256

\* write_frame with the whole payload written behind a wrapped length.
write_frame_unclamped(channel, plen) ==
    LET len == plen % (U16_MAX + 1)
    IN  [channel |-> channel, plen |-> plen,
         header |-> <<channel, len % 256, len \div 256>>,
         nbytes |-> plen]

\* agent_host.rs 63-82: len = payload.len().min(u16::MAX) as u16; then
\* write_u8(channel), write_u16_le(len), write_all(&payload[..len]).  header
\* is the three bytes put on the stream, nbytes the payload bytes after them.
write_frame(channel, plen) ==
    LET len == Min(plen, U16_MAX) % (U16_MAX + 1)
    IN  [channel |-> channel, plen |-> plen,
         header |-> <<channel, len % 256, len \div 256>>,
         nbytes |-> len]

\* The number of stream bytes before the k-th frame of w.
RECURSIVE FrameStart(_, _)
FrameStart(w, k) ==
    IF k <= 1 THEN 0 ELSE FrameStart(w, k - 1) + 3 + w[k - 1].nbytes

StreamLen(w) == FrameStart(w, Len(w) + 1)

\* The i-th byte of the stream.
StreamByte(w, i) ==
    LET k == CHOOSE f \in 1..Len(w) : FrameStart(w, f) < i /\ i <= FrameStart(w, f + 1)
        off == i - FrameStart(w, k)
    IN  IF off <= 3 THEN w[k].header[off] ELSE PayloadByte(k, off - 3)

\* Where a TCP read can end: inside and after the header, inside and after
\* the payload of every frame written.
DeliveryPoints(w) ==
    { d \in UNION { { FrameStart(w, k) + 1, FrameStart(w, k) + 2, FrameStart(w, k) + 3,
                      FrameStart(w, k) + 4, FrameStart(w, k + 1) - 1, FrameStart(w, k + 1) }
                    : k \in 1..Len(w) } : d <= StreamLen(w) }

FrameWrite(channel, plen) ==
    /\ Len(written) < MaxFrames
    /\ written' = Append(written, write_frame(channel, plen))
    /\ UNCHANGED <<delivered, reader, received>>
    /\ UNCHANGED <<slotVars, hostVars, batchVars, libVars>>

TcpDeliver(d) ==
    /\ d \in DeliveryPoints(written)
    /\ d > delivered
    /\ delivered' = d
    /\ UNCHANGED <<written, reader, received>>
    /\ UNCHANGED <<slotVars, hostVars, batchVars, libVars>>

\* agent_host.rs 29-33: read_u8 returns once one byte has arrived.
ReadChannel ==
    /\ reader.pc = "channel"
    /\ delivered >= reader.pos + 1
    /\ reader' = [pc |-> "len", pos |-> reader.pos + 1,
                  channel |-> StreamByte(written, reader.pos + 1), len |-> 0]
    /\ UNCHANGED <<written, delivered, received>>
    /\ UNCHANGED <<slotVars, hostVars, batchVars, libVars>>

\* agent_host.rs 34-38: read_u16_le returns once two bytes have arrived.
ReadLen ==
    /\ reader.pc = "len"
    /\ delivered >= reader.pos + 2
    /\ reader' = [reader EXCEPT !.pc = "payload", !.pos = reader.pos + 2,
                                !.len = StreamByte(written, reader.pos + 1)
                                        + 256 * StreamByte(written, reader.pos + 2)]
    /\ UNCHANGED <<written, delivered, received>>
    /\ UNCHANGED <<slotVars, hostVars, batchVars, libVars>>

\* agent_host.rs 39-44: read_exact returns once len bytes have arrived, and
\* read_frame returns (channel, buf).  A frame read is recorded with the
\* position of its first payload byte and its first and last payload byte.
ReadPayload ==
    /\ reader.pc = "payload"
    /\ delivered >= reader.pos + reader.len
    /\ received' = Append(received,
            [channel |-> reader.channel, len |-> reader.len, first |-> reader.pos + 1,
             b1 |-> IF reader.len > 0 THEN StreamByte(written, reader.pos + 1) ELSE -1,
             bn |-> IF reader.len > 0 THEN StreamByte(written, reader.pos + reader.len) ELSE -1])
    /\ reader' = [pc |-> "channel", pos |-> reader.pos + reader.len, channel |-> 0, len |-> 0]
    /\ UNCHANGED <<written, delivered>>
    /\ UNCHANGED <<slotVars, hostVars, batchVars, libVars>>

\* read_frame can go on with the bytes that have arrived.
ReaderCanStep ==
    \/ reader.pc = "channel" /\ delivered >= reader.pos + 1
    \/ reader.pc = "len" /\ delivered >= reader.pos + 2
    \/ reader.pc = "payload" /\ delivered >= reader.pos + reader.len

\* SpecFrame: frames are written on one connection, reach the reader in
\* pieces and are read by calls of read_frame.
NextFrame ==
    \/ \E channel \in WriteChannels, plen \in PayloadLens : FrameWrite(channel, plen)
    \/ \E d \in DeliveryPoints(written) : TcpDeliver(d)
    \/ ReadChannel
    \/ ReadLen
    \/ ReadPayload

SpecFrame == Init /\ [][NextFrame]_vars

\* ------------------------------------------------------------------ agent host
\* One chunk of PTY output, and the text {"exited":c}, as bytes.
PtyChunk == <<104>>
ExitJson(c) == <<123, 34, 101, 120, 105, 116, 101, 100, 34, 58, 48 + c, 125>>

\* host.rs 150-153 and 177-181: [channel] [len u16 LE] [payload[..len]].
Frame(channel, data) ==
    LET len == Min(Len(data), U16_MAX)
    IN  <<channel, len % 256, len \div 256>> \o SubSeq(data, 1, len)

\* read_frame on the bytes of a socket: a whole frame is there.
FrameComplete(s) == Len(s) >= 3 /\ Len(s) >= 3 + s[2] + 256 * s[3]

\* main.rs 226: text.contains("exited").
ContainsExited(payload) ==
    \E i \in 1..Len(payload) :
        i + 5 <= Len(payload) /\ SubSeq(payload, i, i + 5) = <<101, 120, 105, 116, 101, 100>>

\* broadcast::Sender::send: the value is queued for every receiver that is
\* alive; a receiver more than the capacity behind loses its oldest value and
\* its next recv reports the lag.
Broadcast(q, item) ==
    [k \in Clients |->
        IF writer[k] # "running" THEN q[k]
        ELSE IF Len(q[k].items) >= BROADCAST_CAPACITY
             THEN [items |-> Append(Tail(q[k].items), item), lagged |-> TRUE]
             ELSE [q[k] EXCEPT !.items = Append(q[k].items, item)]]

\* agent_host::connect reads .agent-host.json and connects; host.rs 125-132
\* and 171-186: the accept loop subscribes a receiver and spawns handle_client
\* with its writer task.
ClientConnect(k) ==
    /\ h_pc \in {"serving", "exited"}
    /\ info_file
    /\ cstate[k] = "none"
    /\ cstate' = [cstate EXCEPT ![k] = "reading"]
    /\ writer' = [writer EXCEPT ![k] = "running"]
    /\ UNCHANGED <<h_pc, exit_code, info_file, pty_chunks, pty_log, rx, sock, got, pty_reader, host_status, to_host>>
    /\ UNCHANGED <<slotVars, frameVars, batchVars, libVars>>

\* The PTY reader with a channel whose send waits for room in every
\* receiver's queue.
PtyReadUpToBlocking(max) ==
    /\ h_pc # "terminated"
    /\ pty_reader = "running"
    /\ pty_chunks < max
    /\ \A k \in Clients : writer[k] = "running" => Len(rx[k].items) < BROADCAST_CAPACITY
    /\ pty_chunks' = pty_chunks + 1
    /\ pty_log' = pty_log + 1
    /\ rx' = Broadcast(rx, PtyChunk)
    /\ UNCHANGED <<h_pc, exit_code, info_file, cstate, writer, sock, got, pty_reader,
                   host_status, to_host>>
    /\ UNCHANGED <<slotVars, frameVars, batchVars, libVars>>

\* host.rs 93-108: the PTY reader thread reads a chunk and broadcasts it; the
\* thread goes on for as long as the process lives.
PtyReadUpTo(max) ==
    /\ h_pc # "terminated"
    /\ pty_reader = "running"
    /\ pty_chunks < max
    /\ pty_chunks' = pty_chunks + 1
    /\ pty_log' = pty_log + 1
    /\ rx' = Broadcast(rx, PtyChunk)
    /\ UNCHANGED <<h_pc, exit_code, info_file, cstate, writer, sock, got, pty_reader, host_status, to_host>>
    /\ UNCHANGED <<slotVars, frameVars, batchVars, libVars>>

PtyRead == PtyReadUpTo(MaxChunks)

\* host.rs 138-146: child.wait() returns; run_host sleeps 500 ms.
ChildExit(c) ==
    /\ h_pc = "serving"
    /\ h_pc' = "exited"
    /\ exit_code' = c
    /\ UNCHANGED <<info_file, pty_chunks, pty_log, cstate, writer, rx, sock, got, pty_reader, host_status, to_host>>
    /\ UNCHANGED <<slotVars, frameVars, batchVars, libVars>>

\* host.rs 149-158: the control frame is built and sent on the broadcast
\* channel; the accept task is aborted.
Announce ==
    /\ h_pc = "exited"
    /\ h_pc' = "announced"
    /\ rx' = Broadcast(rx, Frame(CHANNEL_CONTROL, ExitJson(exit_code)))
    /\ UNCHANGED <<exit_code, info_file, pty_chunks, pty_log, cstate, writer, sock, got, pty_reader, host_status, to_host>>
    /\ UNCHANGED <<slotVars, frameVars, batchVars, libVars>>

\* host.rs 159: .agent-host.json is removed.
Cleanup ==
    /\ h_pc = "announced"
    /\ h_pc' = "cleaned"
    /\ info_file' = FALSE
    /\ UNCHANGED <<exit_code, pty_chunks, pty_log, cstate, writer, rx, sock, got, pty_reader, host_status, to_host>>
    /\ UNCHANGED <<slotVars, frameVars, batchVars, libVars>>

\* host.rs 161 and main.rs 37: run_host returns, main returns, the runtime
\* drops every task and the process ends; its sockets are closed, what was
\* written to them stays readable.
Terminate ==
    /\ h_pc = "cleaned"
    /\ h_pc' = "terminated"
    /\ writer' = [k \in Clients |-> IF writer[k] = "running" THEN "ended" ELSE writer[k]]
    /\ host_status' = Some(0)
    /\ UNCHANGED <<exit_code, info_file, pty_chunks, pty_log, cstate, rx, sock, got, pty_reader, to_host>>
    /\ UNCHANGED <<slotVars, frameVars, batchVars, libVars>>

\* host.rs 174-186: the writer task of handle_client receives one value and
\* writes it as a CHANNEL_PTY_OUTPUT frame; any error of recv ends the task.
WriterForward(k) ==
    /\ writer[k] = "running"
    /\ IF rx[k].lagged
       THEN /\ writer' = [writer EXCEPT ![k] = "ended"]
            /\ UNCHANGED <<rx, sock>>
       ELSE /\ rx[k].items # <<>>
            /\ sock' = [sock EXCEPT ![k] = @ \o Frame(CHANNEL_PTY_OUTPUT, Head(rx[k].items))]
            /\ rx' = [rx EXCEPT ![k].items = Tail(@)]
            /\ UNCHANGED writer
    /\ UNCHANGED <<h_pc, exit_code, info_file, pty_chunks, pty_log, cstate, got, pty_reader, host_status, to_host>>
    /\ UNCHANGED <<slotVars, frameVars, batchVars, libVars>>

\* main.rs 217-231: the stream task reads one frame; a CONTROL frame whose
\* text contains "exited" ends the task.
ClientRead(k) ==
    /\ cstate[k] = "reading"
    /\ FrameComplete(sock[k])
    /\ LET len == sock[k][2] + 256 * sock[k][3]
           channel == sock[k][1]
           payload == SubSeq(sock[k], 4, 3 + len)
       IN  /\ got' = [got EXCEPT ![k] = Append(@, <<channel, payload>>)]
           /\ sock' = [sock EXCEPT ![k] = SubSeq(@, 4 + len, Len(@))]
           /\ cstate' = [cstate EXCEPT ![k] =
                    IF channel = CHANNEL_CONTROL /\ ContainsExited(payload)
                    THEN "exited" ELSE "reading"]
    /\ UNCHANGED <<h_pc, exit_code, info_file, pty_chunks, pty_log, writer, rx, pty_reader, host_status, to_host>>
    /\ UNCHANGED <<slotVars, frameVars, batchVars, libVars>>

\* main.rs 217: read_frame fails at the end of the stream of a closed socket.
ClientEof(k) ==
    /\ cstate[k] = "reading"
    /\ h_pc = "terminated"
    /\ ~FrameComplete(sock[k])
    /\ cstate' = [cstate EXCEPT ![k] = "eof"]
    /\ UNCHANGED <<h_pc, exit_code, info_file, pty_chunks, pty_log, writer, rx, sock, got, pty_reader, host_status, to_host>>
    /\ UNCHANGED <<slotVars, frameVars, batchVars, libVars>>

\* SpecHost: an agent host with its clients, from the start of the child to
\* the end of the host process.
NextHost ==
    \/ \E k \in Clients : ClientConnect(k)
    \/ PtyRead
    \/ \E c \in ExitCodes : ChildExit(c)
    \/ Announce
    \/ Cleanup
    \/ Terminate
    \/ \E k \in Clients : WriterForward(k)
    \/ \E k \in Clients : ClientRead(k)
    \/ \E k \in Clients : ClientEof(k)

SpecHost == Init /\ [][NextHost]_vars

\* Control payloads a client can write: the JSON string "kill", the bare word
\* kill (not JSON), and {"resize":[1,1]}.
KILL == <<107, 105, 108, 108>>
KillJson == <<34>> \o KILL \o <<34>>
ResizePrefix == <<123, 34, 114, 101, 115, 105, 122, 101, 34, 58>>
ResizeJson == ResizePrefix \o <<91, 49, 44, 49, 93, 125>>
ClientPayloads == {KillJson, KILL, ResizeJson}

\* serde_json::from_str(text) followed by Value::as_str: the text of a JSON
\* string literal, None for anything else.
as_str(text) ==
    IF /\ Len(text) >= 2
       /\ text[1] = 34
       /\ text[Len(text)] = 34
       /\ \A i \in 2..(Len(text) - 1) : text[i] \notin {34, 92}
    THEN Some(SubSeq(text, 2, Len(text) - 1))
    ELSE None

\* value.get("resize") of the parsed text is Some: an object with that key.
has_resize(text) ==
    /\ Len(text) > Len(ResizePrefix)
    /\ SubSeq(text, 1, Len(ResizePrefix)) = ResizePrefix
    /\ text[Len(text)] = 125

\* host.rs 217-241, handle_control_message: whether the message ends the
\* process with std::process::exit(1).
control_exits(text) == ~has_resize(text) /\ as_str(text) = Some(KILL)

\* agent_host.rs 46-61: send_input, send_resize and send_kill write one frame
\* to the socket.
ClientSend(k, channel, payload) ==
    /\ cstate[k] = "reading"
    /\ h_pc # "terminated"
    /\ to_host[k] = <<>>
    /\ to_host' = [to_host EXCEPT ![k] = Frame(channel, payload)]
    /\ UNCHANGED <<h_pc, exit_code, info_file, pty_chunks, pty_log, cstate, writer, rx, sock, got,
                   pty_reader, host_status>>
    /\ UNCHANGED <<slotVars, frameVars, batchVars, libVars>>

\* host.rs 189-211: handle_client reads one frame of its client; PTY input is
\* written to the PTY, a control message goes to handle_control_message, and
\* the kill message ends the process at once with status 1 (host.rs 236-238):
\* nothing after it runs, .agent-host.json stays.
HostClientRead(k) ==
    /\ h_pc # "terminated"
    /\ writer[k] # "none"
    /\ FrameComplete(to_host[k])
    /\ LET len == to_host[k][2] + 256 * to_host[k][3]
           channel == to_host[k][1]
           payload == SubSeq(to_host[k], 4, 3 + len)
       IN  /\ to_host' = [to_host EXCEPT ![k] = SubSeq(@, 4 + len, Len(@))]
           /\ IF channel = CHANNEL_CONTROL /\ control_exits(payload)
              THEN /\ h_pc' = "terminated"
                   /\ host_status' = Some(1)
                   /\ writer' = [j \in Clients |->
                                    IF writer[j] = "running" THEN "ended" ELSE writer[j]]
              ELSE UNCHANGED <<h_pc, host_status, writer>>
    /\ UNCHANGED <<exit_code, info_file, pty_chunks, pty_log, cstate, rx, sock, got, pty_reader>>
    /\ UNCHANGED <<slotVars, frameVars, batchVars, libVars>>

\* host.rs 95-106: a read of the PTY master returns Ok(0) or Err(_); the
\* reader loop breaks and the blocking task ends. Nothing else is told.
PtyReadEnds(how) ==
    /\ h_pc # "terminated"
    /\ pty_reader = "running"
    /\ pty_reader' = how
    /\ UNCHANGED <<h_pc, exit_code, info_file, pty_chunks, pty_log, cstate, writer, rx, sock, got,
                   host_status, to_host>>
    /\ UNCHANGED <<slotVars, frameVars, batchVars, libVars>>

\* SpecHostExit: the agent host with clients that write to it and a PTY
\* whose reads can fail, up to the end of the host process.
NextHostExit ==
    \/ \E k \in Clients : ClientConnect(k)
    \/ PtyRead
    \/ \E how \in {"eof", "failed"} : PtyReadEnds(how)
    \/ \E c \in ExitCodes : ChildExit(c)
    \/ Announce
    \/ Cleanup
    \/ Terminate
    \/ \E k \in Clients : WriterForward(k)
    \/ \E k \in Clients, channel \in {CHANNEL_PTY_INPUT, CHANNEL_CONTROL},
          payload \in ClientPayloads : ClientSend(k, channel, payload)
    \/ \E k \in Clients : HostClientRead(k)

SpecHostExit == Init /\ [][NextHostExit]_vars

\* SpecLag: an agent that writes more chunks than the broadcast channel
\* holds and then exits, to a host with one client that is connected from the
\* start and whose writer task runs at any pace.
NextLag ==
    \/ pty_chunks = 0 /\ ClientConnect(1)
    \/ PtyReadUpTo(MaxLagChunks)
    \/ pty_chunks = MaxLagChunks /\ ChildExit(0)
    \/ Announce
    \/ Cleanup
    \/ Terminate
    \/ WriterForward(1)

SpecLag == Init /\ [][NextLag]_vars

\* ------------------------------------------------------------------ batches
\* keys.rs 1035-1478: a batch operation collects its targets, spawns one task
\* and the task walks the list, calling one Slot Manager operation per target
\* and sending BatchProgress events.  The operation called is given by what
\* it returns (Ok or Err).
BatchKinds == {"start_all", "stop_all", "rebase_all", "push_all", "destroy_all", "spawn_agents"}

\* The operation each batch calls per target.
BatchOp(kind) ==
    CASE kind = "start_all" -> "start_aspire"
      [] kind = "stop_all" -> "stop_aspire"
      [] kind = "rebase_all" -> "rebase"
      [] kind = "push_all" -> "git_push"
      [] kind = "destroy_all" -> "destroy_slot"
      [] kind = "spawn_agents" -> "spawn_agent"
      [] OTHER -> "create_slot"

\* A target: a slot name and, for a resolved blueprint slot, auto_start_aspire.
Targets == [name : Names, auto_start : BOOLEAN]
TargetLists == SeqsUpTo(Targets, MaxTargets)

\* AppEvent::BatchProgress; failure is the number of the failed target (0 for
\* none), failed its name.
Progress(completed, total, current, failure, failed, done) ==
    [completed |-> completed, total |-> total, current_slot |-> current,
     failure |-> failure, failed |-> failed, done |-> done]

\* keys.rs 1164-1183 (and the same in the other five launchers): the targets
\* are taken from app.slots; nothing is launched for an empty list.
BatchLaunch(kind, targets) ==
    /\ b_kind = "none"
    /\ targets # <<>>
    /\ \A k \in 1..Len(targets) : ~targets[k].auto_start
    /\ b_kind' = kind
    /\ b_targets' = targets
    /\ b_total' = Len(targets)
    /\ b_i' = 0
    /\ b_pc' = "iter"
    /\ UNCHANGED <<b_events, b_calls>>
    /\ UNCHANGED <<slotVars, frameVars, hostVars, libVars>>

\* keys.rs 1049-1088: the blueprint is loaded and resolved; either failure
\* ends the batch with one done event, otherwise the first event announces
\* the total.
BlueprintLaunch(outcome, resolved) ==
    /\ b_kind = "none"
    /\ b_kind' = "blueprint"
    /\ b_i' = 0
    /\ IF outcome = "ok"
       THEN /\ b_targets' = resolved
            /\ b_total' = Len(resolved)
            /\ b_events' = <<Progress(0, Len(resolved), "None", 0, "None", FALSE)>>
            /\ b_pc' = "iter"
       ELSE /\ b_targets' = <<>>
            /\ b_total' = 0
            /\ b_events' = <<Progress(0, 0, "None", 0, "None", TRUE)>>
            /\ b_pc' = "done"
    /\ UNCHANGED b_calls
    /\ UNCHANGED <<slotVars, frameVars, hostVars, libVars>>

\* The top of the loop body (keys.rs 1184-1193, 1090-1112): the event naming
\* the current slot is sent and the operation is called.
BatchIter ==
    /\ b_pc = "iter"
    /\ b_i < b_total
    /\ b_events' = Append(b_events,
            Progress(b_i, b_total, b_targets[b_i + 1].name, 0, "None", FALSE))
    /\ b_calls' = Append(b_calls,
            [op |-> BatchOp(b_kind), name |-> b_targets[b_i + 1].name,
             target |-> b_i + 1, res |-> "pending"])
    /\ b_pc' = "call"
    /\ UNCHANGED <<b_kind, b_targets, b_total, b_i>>
    /\ UNCHANGED <<slotVars, frameVars, hostVars, libVars>>

\* The event sent when the call for the current target has returned an error.
FailureEvent ==
    Progress(b_i + 1, b_total, "None", b_i + 1, b_targets[b_i + 1].name, FALSE)

\* The loop left at the first error.
BatchReturnAborts(res) ==
    /\ b_pc = "call"
    /\ b_calls' = [b_calls EXCEPT ![Len(b_calls)].res = res]
    /\ b_events' = IF res = "Err" THEN Append(b_events, FailureEvent) ELSE b_events
    /\ IF b_kind = "blueprint" /\ res = "Ok" /\ b_targets[b_i + 1].auto_start
       THEN /\ b_pc' = "start"
            /\ UNCHANGED b_i
       ELSE /\ b_pc' = "iter"
            /\ b_i' = IF res = "Err" THEN b_total ELSE b_i + 1
    /\ UNCHANGED <<b_kind, b_targets, b_total>>
    /\ UNCHANGED <<slotVars, frameVars, hostVars, libVars>>

\* start_aspire called for every blueprint slot created, whatever its flag.
BatchReturnAlwaysStarts(res) ==
    /\ b_pc = "call"
    /\ b_calls' = [b_calls EXCEPT ![Len(b_calls)].res = res]
    /\ b_events' = IF res = "Err" THEN Append(b_events, FailureEvent) ELSE b_events
    /\ IF b_kind = "blueprint" /\ res = "Ok"
       THEN /\ b_pc' = "start"
            /\ UNCHANGED b_i
       ELSE /\ b_pc' = "iter"
            /\ b_i' = b_i + 1
    /\ UNCHANGED <<b_kind, b_targets, b_total>>
    /\ UNCHANGED <<slotVars, frameVars, hostVars, libVars>>

\* keys.rs 1193-1205 (1105-1141 for a blueprint): the operation returns; an
\* error is reported by one event; the loop goes on (after the stagger delay
\* of start-all and spawn-agents).  A blueprint slot created with
\* auto_start_aspire set has start_aspire called next.
BatchReturn(res) ==
    /\ b_pc = "call"
    /\ b_calls' = [b_calls EXCEPT ![Len(b_calls)].res = res]
    /\ b_events' = IF res = "Err" THEN Append(b_events, FailureEvent) ELSE b_events
    /\ IF b_kind = "blueprint" /\ res = "Ok" /\ b_targets[b_i + 1].auto_start
       THEN /\ b_pc' = "start"
            /\ UNCHANGED b_i
       ELSE /\ b_pc' = "iter"
            /\ b_i' = b_i + 1
    /\ UNCHANGED <<b_kind, b_targets, b_total>>
    /\ UNCHANGED <<slotVars, frameVars, hostVars, libVars>>

\* keys.rs 1115-1116: start_aspire is called for the slot just created.
BlueprintStart ==
    /\ b_pc = "start"
    /\ b_calls' = Append(b_calls,
            [op |-> "start_aspire", name |-> b_targets[b_i + 1].name,
             target |-> b_i + 1, res |-> "pending"])
    /\ b_pc' = "start_call"
    /\ UNCHANGED <<b_kind, b_targets, b_total, b_i, b_events>>
    /\ UNCHANGED <<slotVars, frameVars, hostVars, libVars>>

\* keys.rs 1116-1129: start_aspire returns; an error is reported by one
\* event; the stagger delay passes.
BlueprintStartReturn(res) ==
    /\ b_pc = "start_call"
    /\ b_calls' = [b_calls EXCEPT ![Len(b_calls)].res = res]
    /\ b_events' = IF res = "Err" THEN Append(b_events, FailureEvent) ELSE b_events
    /\ b_pc' = "iter"
    /\ b_i' = b_i + 1
    /\ UNCHANGED <<b_kind, b_targets, b_total>>
    /\ UNCHANGED <<slotVars, frameVars, hostVars, libVars>>

\* The task ending without the done event.
BatchFinishSilent ==
    /\ b_pc = "iter"
    /\ b_i >= b_total
    /\ b_pc' = "done"
    /\ UNCHANGED <<b_kind, b_targets, b_total, b_i, b_calls, b_events>>
    /\ UNCHANGED <<slotVars, frameVars, hostVars, libVars>>

\* keys.rs 1207-1213 (1144-1150): after the loop the done event is sent.
BatchFinish ==
    /\ b_pc = "iter"
    /\ b_i >= b_total
    /\ b_events' = Append(b_events, Progress(b_total, b_total, "None", 0, "None", TRUE))
    /\ b_pc' = "done"
    /\ UNCHANGED <<b_kind, b_targets, b_total, b_i, b_calls>>
    /\ UNCHANGED <<slotVars, frameVars, hostVars, libVars>>

\* SpecBatch: one batch operation or blueprint load is launched and runs.
NextBatch ==
    \/ \E kind \in BatchKinds, targets \in TargetLists : BatchLaunch(kind, targets)
    \/ \E outcome \in {"load_err", "resolve_err", "ok"}, resolved \in TargetLists :
            BlueprintLaunch(outcome, resolved)
    \/ BatchIter
    \/ \E res \in {"Ok", "Err"} : BatchReturn(res)
    \/ BlueprintStart
    \/ \E res \in {"Ok", "Err"} : BlueprintStartReturn(res)
    \/ BatchFinish

SpecBatch == Init /\ [][NextBatch]_vars

\* SpecBatchLive: the batch task is scheduled for as long as it can run and
\* every operation it calls returns.
SpecBatchLive == Init /\ [][NextBatch]_vars /\ WF_vars(NextBatch)

\* ------------------------------------------------------------------ blueprints
\* validate: the errors in the order the code pushes them.
validate(bp) ==
    LET has_default_source == bp.defaults # None /\ bp.defaults[1].source # None
        SlotErrors(i) ==
            (IF bp.slots[i].name = <<>>
                THEN <<[kind |-> "empty name", index |-> i - 1]>> ELSE <<>>)
            \o (IF bp.slots[i].source = None /\ ~has_default_source
                   THEN <<[kind |-> "no source", name |-> bp.slots[i].name]>> ELSE <<>>)
        AllSlotErrors[i \in 0..Len(bp.slots)] ==
            IF i = 0 THEN <<>> ELSE AllSlotErrors[i - 1] \o SlotErrors(i)
        errors ==
            (IF bp.name = <<>> THEN <<[kind |-> "name required"]>> ELSE <<>>)
            \o (IF bp.slots = <<>> THEN <<[kind |-> "no slots"]>> ELSE <<>>)
            \o AllSlotErrors[Len(bp.slots)]
    IN  [ok |-> errors = <<>>, errors |-> errors]

\* str::replace: every occurrence of the piece pat becomes the text rep.
RECURSIVE replace(_, _, _)
replace(s, pat, rep) ==
    IF s = <<>> THEN <<>>
    ELSE (IF Head(s) = pat THEN rep ELSE <<Head(s)>>) \o replace(Tail(s), pat, rep)

\* interpolate: the second replace runs over the result of the first.
interpolate(template, slot_name, branch) ==
    replace(replace(template, VAR_SLOT_NAME, slot_name), VAR_BRANCH, branch)

\* merge_agent_config: slot-level fields override default-level fields.
merge_agent_config(default, slot) ==
    IF default = None /\ slot = None THEN None
    ELSE IF slot = None THEN default
    ELSE IF default = None THEN slot
    ELSE Some([prompt_template |-> Or(slot[1].prompt_template, default[1].prompt_template),
               allowed_tools |-> Or(slot[1].allowed_tools, default[1].allowed_tools),
               max_turns |-> Or(slot[1].max_turns, default[1].max_turns)])

\* resolve: validate, then one ResolvedBlueprintSlot per entry; an entry left
\* without a source ends the loop with an error.
resolve(bp) ==
    LET defaults == bp.defaults
        default_source == IF defaults # None THEN defaults[1].source ELSE None
        default_auto_start ==
            UnwrapOr(IF defaults # None THEN defaults[1].auto_start_aspire ELSE None, FALSE)
        default_auto_spawn ==
            UnwrapOr(IF defaults # None THEN defaults[1].auto_spawn_agent ELSE None, FALSE)
        default_agent == IF defaults # None THEN defaults[1].agent ELSE None
        Resolved(slot) ==
            LET agent_config == merge_agent_config(default_agent, slot.agent)
                branch_str == UnwrapOr(slot.branch, MAIN)
                template == IF agent_config # None THEN agent_config[1].prompt_template ELSE None
            IN  [name |-> slot.name,
                 source |-> Or(slot.source, default_source)[1],
                 branch |-> slot.branch,
                 auto_start_aspire |-> UnwrapOr(slot.auto_start_aspire, default_auto_start),
                 auto_spawn_agent |-> UnwrapOr(slot.auto_spawn_agent, default_auto_spawn),
                 prompt |-> IF template # None
                               THEN Some(interpolate(template[1], slot.name, branch_str))
                               ELSE None,
                 allowed_tools |-> IF agent_config # None THEN agent_config[1].allowed_tools ELSE None,
                 max_turns |-> IF agent_config # None THEN agent_config[1].max_turns ELSE None]
    IN  IF ~validate(bp).ok
           THEN [ok |-> FALSE, err |-> "BlueprintValidation", slots |-> <<>>]
        ELSE IF \E i \in 1..Len(bp.slots) : Or(bp.slots[i].source, default_source) = None
           THEN [ok |-> FALSE, err |-> "BlueprintValidation", slots |-> <<>>]
        ELSE [ok |-> TRUE, err |-> "",
              slots |-> [i \in 1..Len(bp.slots) |-> Resolved(bp.slots[i])]]

ValidateCall ==
    /\ bp_ret' = [op |-> "validate", res |-> validate(blueprint)]
    /\ UNCHANGED blueprint
    /\ UNCHANGED exceptBp

ResolveCall ==
    /\ bp_ret' = [op |-> "resolve", res |-> resolve(blueprint)]
    /\ UNCHANGED blueprint
    /\ UNCHANGED exceptBp

NextBlueprint == ValidateCall \/ ResolveCall
InitBlueprints ==
    InitCore /\ InitBlueprint /\ InitStore /\ InitAlloc /\ InitState /\ IdleLog
SpecBlueprint == InitBlueprints /\ [][NextBlueprint]_vars

\* ------------------------------------------------------------------ blueprint store
\* Blueprint names and file names are byte strings, so that sort and the
\* extension test work on them as they do on the code's strings.
DOT == 46
EXT_YAML == <<121, 97, 109, 108>>
\* "a", "a.b" and "b": the save dialog refuses an empty name, and a name may
\* hold a dot.
StoreNames == {<<97>>, <<97, DOT, 98>>, <<98>>}
MaxStoreCalls == 3

\* Two blueprints per name: one with every optional field absent that can be,
\* one with description, defaults and agent configuration present.
StoreBlueprints ==
    {[name |-> n, description |-> None, defaults |-> None,
      slots |-> <<[EntryBase EXCEPT !.source = Some(<<"r">>)]>>] : n \in StoreNames}
    \cup {[name |-> n, description |-> Some(<<"x">>), defaults |-> Some(DefaultsBase),
           slots |-> <<EntryBase>>] : n \in StoreNames}

\* serde_yaml::to_string: a mapping from the keys that are written to their
\* values; a field that is None is skipped, a field that is Some(x) is
\* written as x.
AgentYaml(a) ==
    [k \in {k \in {"prompt_template", "allowed_tools", "max_turns"} : a[k] # None} |-> a[k][1]]
SettingsYaml(r, required) ==
    [k \in required \cup {k \in {"branch", "source", "auto_start_aspire", "auto_spawn_agent", "agent"} :
                              k \in DOMAIN r /\ r[k] # None} |->
        IF k \in required THEN r[k]
        ELSE IF k = "agent" THEN AgentYaml(r[k][1]) ELSE r[k][1]]
to_yaml(bp) ==
    [k \in {"name", "slots"} \cup {k \in {"description", "defaults"} : bp[k] # None} |->
        CASE k = "name" -> bp.name
          [] k = "slots" -> [i \in 1..Len(bp.slots) |-> SettingsYaml(bp.slots[i], {"name"})]
          [] k = "description" -> bp.description[1]
          [] k = "defaults" -> SettingsYaml(bp.defaults[1], {})]

\* serde_yaml::from_str: a key that is missing, and has #[serde(default)],
\* reads as None.
OptionField(doc, k) == IF k \in DOMAIN doc THEN Some(doc[k]) ELSE None
AgentFromYaml(doc) ==
    [prompt_template |-> OptionField(doc, "prompt_template"),
     allowed_tools |-> OptionField(doc, "allowed_tools"),
     max_turns |-> OptionField(doc, "max_turns")]
OptionAgent(doc) ==
    IF "agent" \in DOMAIN doc THEN Some(AgentFromYaml(doc["agent"])) ELSE None
EntryFromYaml(doc) ==
    [name |-> doc["name"], branch |-> OptionField(doc, "branch"),
     source |-> OptionField(doc, "source"),
     auto_start_aspire |-> OptionField(doc, "auto_start_aspire"),
     auto_spawn_agent |-> OptionField(doc, "auto_spawn_agent"),
     agent |-> OptionAgent(doc)]
DefaultsFromYaml(doc) ==
    [source |-> OptionField(doc, "source"),
     auto_start_aspire |-> OptionField(doc, "auto_start_aspire"),
     auto_spawn_agent |-> OptionField(doc, "auto_spawn_agent"),
     agent |-> OptionAgent(doc)]
from_yaml(doc) ==
    IF ~({"name", "slots"} \subseteq DOMAIN doc)
       \/ \E i \in 1..Len(doc["slots"]) : "name" \notin DOMAIN doc["slots"][i]
       THEN [res |-> "Yaml"]
    ELSE [res |-> "Ok",
          value |-> [name |-> doc["name"],
                     description |-> OptionField(doc, "description"),
                     defaults |-> IF "defaults" \in DOMAIN doc
                                     THEN Some(DefaultsFromYaml(doc["defaults"])) ELSE None,
                     slots |-> [i \in 1..Len(doc["slots"]) |-> EntryFromYaml(doc["slots"][i])]]]

\* format!("{name}.yaml"), Path::extension and Path::file_stem.
FileName(name) == name \o <<DOT>> \o EXT_YAML
LastDot(f) ==
    LET dots == {i \in 1..Len(f) : f[i] = DOT}
    IN  IF dots = {} THEN 0 ELSE CHOOSE i \in dots : \A j \in dots : j <= i
extension(f) == IF LastDot(f) <= 1 THEN None ELSE Some(SubSeq(f, LastDot(f) + 1, Len(f)))
file_stem(f) == IF LastDot(f) <= 1 THEN f ELSE SubSeq(f, 1, LastDot(f) - 1)

\* The order of String: byte by byte, a proper prefix first.
RECURSIVE StrLess(_, _)
StrLess(a, b) ==
    IF b = <<>> THEN FALSE
    ELSE IF a = <<>> THEN TRUE
    ELSE IF Head(a) # Head(b) THEN Head(a) < Head(b)
    ELSE StrLess(Tail(a), Tail(b))

\* Vec::sort, as an insertion sort.
RECURSIVE Insert(_, _)
Insert(x, q) ==
    IF q = <<>> THEN <<x>>
    ELSE IF StrLess(Head(q), x) THEN <<Head(q)>> \o Insert(x, Tail(q))
    ELSE <<x>> \o q
RECURSIVE sort(_)
sort(q) == IF q = <<>> THEN <<>> ELSE Insert(Head(q), sort(Tail(q)))

\* The orders in which read_dir may yield the files.
Orders(S) == {q \in [1..Cardinality(S) -> S] : \A i, j \in 1..Cardinality(S) : i # j => q[i] # q[j]}

Put(files, f, doc) == [g \in DOMAIN files \cup {f} |-> IF g = f THEN doc ELSE files[g]]
Remove(files, f) == [g \in DOMAIN files \ {f} |-> files[g]]
Logged(op, name, bp, result) ==
    /\ Len(store_log) < MaxStoreCalls
    /\ store_log' = Append(store_log, [op |-> op, name |-> name, bp |-> bp, ret |-> result])

\* save without the test for an existing file.
StoreSaveNoCheck(bp) ==
    /\ blueprints_dir' = [exists |-> TRUE,
                          files |-> Put(blueprints_dir.files, FileName(bp.name), to_yaml(bp))]
    /\ Logged("save", bp.name, Some(bp), [res |-> "Ok"])
    /\ UNCHANGED exceptStore

\* save: refuses a name whose file exists.
StoreSave(bp) ==
    /\ IF FileName(bp.name) \in DOMAIN blueprints_dir.files
          THEN /\ Logged("save", bp.name, Some(bp), [res |-> "BlueprintAlreadyExists"])
               /\ UNCHANGED blueprints_dir
          ELSE /\ blueprints_dir' =
                     [exists |-> TRUE,
                      files |-> Put(blueprints_dir.files, FileName(bp.name), to_yaml(bp))]
               /\ Logged("save", bp.name, Some(bp), [res |-> "Ok"])
    /\ UNCHANGED exceptStore

StoreOverwrite(bp) ==
    /\ blueprints_dir' = [exists |-> TRUE,
                          files |-> Put(blueprints_dir.files, FileName(bp.name), to_yaml(bp))]
    /\ Logged("overwrite", bp.name, Some(bp), [res |-> "Ok"])
    /\ UNCHANGED exceptStore

StoreDelete(name) ==
    /\ IF FileName(name) \notin DOMAIN blueprints_dir.files
          THEN /\ Logged("delete", name, None, [res |-> "BlueprintNotFound"])
               /\ UNCHANGED blueprints_dir
          ELSE /\ blueprints_dir' =
                     [blueprints_dir EXCEPT !.files = Remove(blueprints_dir.files, FileName(name))]
               /\ Logged("delete", name, None, [res |-> "Ok"])
    /\ UNCHANGED exceptStore

StoreLoad(name) ==
    /\ IF FileName(name) \notin DOMAIN blueprints_dir.files
          THEN Logged("load", name, None, [res |-> "BlueprintNotFound"])
          ELSE Logged("load", name, None, from_yaml(blueprints_dir.files[FileName(name)]))
    /\ UNCHANGED blueprints_dir
    /\ UNCHANGED exceptStore

StoreList ==
    /\ IF ~blueprints_dir.exists
          THEN Logged("list", <<>>, None, [res |-> "Ok", value |-> <<>>])
          ELSE \E entries \in Orders(DOMAIN blueprints_dir.files) :
                  LET yaml == SelectSeq(entries, LAMBDA f : extension(f) = Some(EXT_YAML))
                      names == [i \in 1..Len(yaml) |-> file_stem(yaml[i])]
                  IN  Logged("list", <<>>, None, [res |-> "Ok", value |-> sort(names)])
    /\ UNCHANGED blueprints_dir
    /\ UNCHANGED exceptStore

NextStore ==
    \/ \E bp \in StoreBlueprints : StoreSave(bp)
    \/ \E bp \in StoreBlueprints : StoreOverwrite(bp)
    \/ \E name \in StoreNames : StoreDelete(name)
    \/ \E name \in StoreNames : StoreLoad(name)
    \/ StoreList
SpecStore == Init /\ [][NextStore]_vars

\* ------------------------------------------------------------------ allocate
\* PortAllocator::allocate holds the lock on the tracked set from its first
\* line to its return, so no other call touches the set while it loops.
MAX_ATTEMPTS == 100

\* allocate: takes the lock.
AllocateCall ==
    /\ alloc_pc = "idle"
    /\ alloc_pc' = "loop"
    /\ alloc_i' = 0
    /\ alloc_before' = allocated
    /\ alloc_rejected' = 0
    /\ alloc_ret' = [res |-> "none"]
    /\ UNCHANGED allocated
    /\ UNCHANGED exceptAlloc

\* One turn of the loop that returns the candidate whether or not it is tracked.
AllocateAttemptNoInsertTest(port) ==
    /\ alloc_pc = "loop" /\ alloc_i < MAX_ATTEMPTS
    /\ allocated' = allocated \cup {port}
    /\ alloc_pc' = "idle"
    /\ alloc_ret' = [res |-> "Ok", port |-> port]
    /\ UNCHANGED <<alloc_i, alloc_before, alloc_rejected>>
    /\ UNCHANGED exceptAlloc

\* One turn of the loop: the OS binds 127.0.0.1:0 to the port it chooses, and
\* insert tells whether the port was tracked already.
AllocateAttempt(port) ==
    /\ alloc_pc = "loop" /\ alloc_i < MAX_ATTEMPTS
    /\ IF port \notin allocated
          THEN /\ allocated' = allocated \cup {port}
               /\ alloc_pc' = "idle"
               /\ alloc_ret' = [res |-> "Ok", port |-> port]
               /\ UNCHANGED <<alloc_i, alloc_rejected>>
          ELSE /\ alloc_i' = alloc_i + 1
               /\ alloc_rejected' = alloc_rejected + 1
               /\ UNCHANGED <<allocated, alloc_pc, alloc_ret>>
    /\ UNCHANGED alloc_before
    /\ UNCHANGED exceptAlloc

\* find_available_port fails: the error leaves allocate at once.
AllocateBindFails ==
    /\ alloc_pc = "loop" /\ alloc_i < MAX_ATTEMPTS
    /\ alloc_pc' = "idle"
    /\ alloc_ret' = [res |-> "PortAllocation", cause |-> "bind"]
    /\ UNCHANGED <<allocated, alloc_i, alloc_before, alloc_rejected>>
    /\ UNCHANGED exceptAlloc

\* The loop ran out.
AllocateExhausted ==
    /\ alloc_pc = "loop" /\ alloc_i = MAX_ATTEMPTS
    /\ alloc_pc' = "idle"
    /\ alloc_ret' = [res |-> "PortAllocation", cause |-> "attempts"]
    /\ UNCHANGED <<allocated, alloc_i, alloc_before, alloc_rejected>>
    /\ UNCHANGED exceptAlloc

\* release
Release(port) ==
    /\ alloc_pc = "idle"
    /\ port \in allocated
    /\ allocated' = allocated \ {port}
    /\ alloc_ret' = [res |-> "none"]
    /\ UNCHANGED <<alloc_pc, alloc_i, alloc_before, alloc_rejected>>
    /\ UNCHANGED exceptAlloc

NextAlloc ==
    \/ AllocateCall
    \/ \E port \in Ports : AllocateAttempt(port)
    \/ AllocateBindFails
    \/ AllocateExhausted
    \/ \E port \in Ports : Release(port)
SpecAlloc == Init /\ [][NextAlloc]_vars

\* ------------------------------------------------------------------ state store
MaxStateSlots == 2

\* The slots saved: fresh, started (timestamps and a dashboard URL present),
\* under two names.
StateSlot(n, status, started) ==
    [name |-> n, status |-> status, agent_status |-> "None",
     services |-> [dashboard_url |-> IF started THEN Some(<<"u">>) ELSE None],
     created_at |-> 1,
     aspire_started_at |-> IF started THEN Some(2) ELSE None,
     agent_started_at |-> None,
     last_agent_output_at |-> IF started THEN Some(3) ELSE None]
StateSlots ==
    {StateSlot("a", "Ready", FALSE), StateSlot("a", "Running", TRUE),
     StateSlot("b", "Provisioning", FALSE), StateSlot("b", "Running", TRUE)}
StateLists == SeqsUpTo(StateSlots, MaxStateSlots)

\* #[serde(rename_all = "camelCase")] on the status enums.
CamelCase(variant) ==
    CASE variant = "Provisioning" -> "provisioning"
      [] variant = "Ready" -> "ready"
      [] variant = "Running" -> "running"
      [] variant = "None" -> "none"

\* The inverse, as Deserialize reads the variant name.
FromCamelCase(text) ==
    CASE text = "provisioning" -> "Provisioning"
      [] text = "ready" -> "Ready"
      [] text = "running" -> "Running"
      [] text = "none" -> "None"

\* DateTime<Utc> as its RFC 3339 text, and back.
Rfc3339(t) == <<"rfc3339", t>>
ParseRfc3339(text) == text[2]

\* serde_json::to_string_pretty: an object holds the keys that are written,
\* in camelCase; a timestamp that is None is skipped, and so is a dashboard
\* URL that is None.
ServicesJson(v) ==
    [k \in {k \in {"dashboardUrl"} : v.dashboard_url # None} |-> v.dashboard_url[1]]
SlotJson(v) ==
    LET Stamp(k) == CASE k = "aspireStartedAt" -> v.aspire_started_at
                      [] k = "agentStartedAt" -> v.agent_started_at
                      [] k = "lastAgentOutputAt" -> v.last_agent_output_at
    IN  [k \in {"name", "status", "agentStatus", "services", "createdAt"}
               \cup {k \in {"aspireStartedAt", "agentStartedAt", "lastAgentOutputAt"} :
                        Stamp(k) # None} |->
            CASE k = "name" -> v.name
              [] k = "status" -> CamelCase(v.status)
              [] k = "agentStatus" -> CamelCase(v.agent_status)
              [] k = "services" -> ServicesJson(v.services)
              [] k = "createdAt" -> Rfc3339(v.created_at)
              [] OTHER -> Rfc3339(Stamp(k)[1])]
to_json(list) == [i \in 1..Len(list) |-> SlotJson(list[i])]

\* serde_json::from_str: an Option field whose key is missing reads as None.
OptionStamp(doc, k) == IF k \in DOMAIN doc THEN Some(ParseRfc3339(doc[k])) ELSE None
SlotFromJson(doc) ==
    [name |-> doc["name"],
     status |-> FromCamelCase(doc["status"]),
     agent_status |-> FromCamelCase(doc["agentStatus"]),
     services |-> [dashboard_url |-> OptionField(doc["services"], "dashboardUrl")],
     created_at |-> ParseRfc3339(doc["createdAt"]),
     aspire_started_at |-> OptionStamp(doc, "aspireStartedAt"),
     agent_started_at |-> OptionStamp(doc, "agentStartedAt"),
     last_agent_output_at |-> OptionStamp(doc, "lastAgentOutputAt")]
from_json(doc) == [i \in 1..Len(doc) |-> SlotFromJson(doc[i])]

\* save.  create_dir_all may fail, and then nothing is written.  fs::write
\* opens state.json with truncation and then writes: when opening fails the
\* file is as before, when writing fails the file holds a part of the
\* document or nothing.
StateSave(list, outcome) ==
    /\ CASE outcome = "ok" ->
              /\ state_json' = [kind |-> "document", doc |-> to_json(list)]
              /\ st_saved' = Some(list)
              /\ st_ret' = [op |-> "save", res |-> "Ok"]
         [] outcome \in {"create_dir_fails", "open_fails"} ->
              /\ st_ret' = [op |-> "save", res |-> "State"]
              /\ UNCHANGED <<state_json, st_saved>>
         [] outcome = "write_fails" ->
              /\ state_json' = [kind |-> "partial"]
              /\ st_ret' = [op |-> "save", res |-> "State"]
              /\ UNCHANGED st_saved
    /\ UNCHANGED exceptState

\* load: no file gives the empty list; a file that does not parse is an error.
StateLoad(outcome) ==
    /\ CASE state_json.kind = "absent" -> st_ret' = [op |-> "load", res |-> "Ok", value |-> <<>>]
         [] state_json.kind # "absent" /\ outcome = "read_fails" ->
              st_ret' = [op |-> "load", res |-> "State"]
         [] state_json.kind = "partial" /\ outcome = "ok" ->
              st_ret' = [op |-> "load", res |-> "Json"]
         [] state_json.kind = "document" /\ outcome = "ok" ->
              st_ret' = [op |-> "load", res |-> "Ok", value |-> from_json(state_json.doc)]
    /\ UNCHANGED <<state_json, st_saved>>
    /\ UNCHANGED exceptState

NextState ==
    \/ \E list \in StateLists,
          outcome \in {"ok", "create_dir_fails", "open_fails", "write_fails"} :
          StateSave(list, outcome)
    \/ \E outcome \in {"ok", "read_fails"} : StateLoad(outcome)
SpecState == Init /\ [][NextState]_vars

\* ------------------------------------------------------------------ discovery
\* A log text is a sequence of pieces.  A phrase a pattern looks for is one
\* piece, with the white space that ends it; an URL starts with a piece that
\* stands for "https://" and one more character, and goes on over the pieces
\* that are not white space.
NOW == "Now listening on: "
LOGIN == "Login to the dashboard at "
RESOURCE_A == "\"api\" is listening on "
RESOURCE_B == "\"web\" is listening on "
ResourceName(piece) == IF piece = RESOURCE_A THEN "api" ELSE "web"
URL_G == "https://g"
URL_H == "https://h"
NEWLINE == "\n"
UrlPieces == {URL_G, URL_H, "1"}
MaxLogLines == 3

\* The lines a stack writes: each phrase with an URL, a phrase whose URL
\* comes on the next line, an URL alone, an URL that goes on, other text.
LogLineShapes ==
    {<<NOW, URL_G>>, <<LOGIN, URL_H>>, <<RESOURCE_A, URL_G>>, <<RESOURCE_A, URL_H, "1">>,
     <<RESOURCE_B, URL_G>>, <<NOW>>, <<URL_H>>, <<"x">>}
LogTexts == SeqsUpTo(LogLineShapes, MaxLogLines)

\* The log task calls parse_log_content on the lines received so far, each
\* followed by a newline.
RECURSIVE full_log(_)
full_log(lines) ==
    IF lines = <<>> THEN <<>> ELSE Head(lines) \o <<NEWLINE>> \o full_log(Tail(lines))

InitLog ==
    /\ log_lines \in LogTexts
    /\ log_cut \in 0..Len(log_lines)
    /\ log_short = [done |-> FALSE]
    /\ log_long = [done |-> FALSE]

\* (https?://\S+) at position i: the URL piece there and the pieces after it
\* up to the first white space.
RECURSIVE UrlEnd(_, _)
UrlEnd(text, i) ==
    IF i < Len(text) /\ text[i + 1] \in UrlPieces THEN UrlEnd(text, i + 1) ELSE i
UrlAt(text, i) ==
    IF i <= Len(text) /\ text[i] \in {URL_G, URL_H}
       THEN Some(SubSeq(text, i, UrlEnd(text, i))) ELSE None

\* \s+ after a phrase: the phrase ends in white space, and more may follow.
RECURSIVE SkipSpace(_, _)
SkipSpace(text, i) ==
    IF i <= Len(text) /\ text[i] = NEWLINE THEN SkipSpace(text, i + 1) ELSE i

\* The URL a pattern captures when it matches at position i, if it does.
CaptureAt(text, i, phrases) ==
    IF text[i] \in phrases THEN UrlAt(text, SkipSpace(text, i + 1)) ELSE None
Matches(text, phrases) == {i \in 1..Len(text) : CaptureAt(text, i, phrases) # None}
\* Regex::captures: the leftmost match.
captures(text, phrases) ==
    IF Matches(text, phrases) = {} THEN None
    ELSE LET i == CHOOSE i \in Matches(text, phrases) : \A j \in Matches(text, phrases) : i <= j
         IN  CaptureAt(text, i, phrases)

\* HashMap::insert for every match of captures_iter, first to last: a name
\* matched again takes the later URL.
service_urls(text) ==
    LET R == Matches(text, {RESOURCE_A, RESOURCE_B})
        Named(n) == {i \in R : ResourceName(text[i]) = n}
    IN  [n \in {ResourceName(text[i]) : i \in R} |->
            CaptureAt(text, CHOOSE i \in Named(n) : \A j \in Named(n) : j <= i,
                      {RESOURCE_A, RESOURCE_B})[1]]

parse_log_content(text) ==
    [dashboard_url |-> Or(captures(text, {LOGIN}), captures(text, {NOW})),
     service_urls |-> service_urls(text)]

\* The parse after log_cut lines.
ParsePrefix ==
    /\ ~log_short.done
    /\ log_short' = [done |-> TRUE,
                     services |-> parse_log_content(full_log(SubSeq(log_lines, 1, log_cut)))]
    /\ UNCHANGED <<log_lines, log_cut, log_long>>
    /\ UNCHANGED exceptLog

\* The parse after all the lines.
ParseWhole ==
    /\ ~log_long.done
    /\ log_long' = [done |-> TRUE, services |-> parse_log_content(full_log(log_lines))]
    /\ UNCHANGED <<log_lines, log_cut, log_short>>
    /\ UNCHANGED exceptLog

NextLog == ParsePrefix \/ ParseWhole
InitLogs ==
    InitCore /\ IdleBlueprint /\ InitStore /\ InitAlloc /\ InitState /\ InitLog
SpecLog == InitLogs /\ [][NextLog]_vars

\* ------------------------------------------------------------------ locks
\* The SlotManager methods as the sequence of lock acquisitions, guard drops,
\* changes made under a guard and awaits of external I/O they go through.
\* The three maps are tokio RwLocks: slots, aspire_processes,
\* agent_tailer_handles.
acquire(map, mode) == <<"acquire", map, mode>>
release(map) == <<"release", map>>
io(kind) == <<"io", kind>>
change(what) == <<"change", what>>

\* slot_manager.rs 435-438: the read guard lives to the end of the function,
\* across state_store.save(&slots).await.
persist_locks == <<acquire("slots", "read"), io("save"), release("slots")>>

\* slot_manager.rs 424-432: the write guard ends with its block, then persist.
update_slot_locks ==
    <<acquire("slots", "write"), change("field"), release("slots")>> \o persist_locks

\* slot_manager.rs 85-88.
get_slot_locks == <<acquire("slots", "read"), change("snapshot"), release("slots")>>

\* slot_manager.rs 191-274.
start_aspire_locks ==
    get_slot_locks \o <<io("load")>> \o update_slot_locks
        \o <<io("write_log"), io("spawn")>>
        \o <<acquire("aspire_processes", "write"), change("insert"),
             release("aspire_processes")>>
        \o update_slot_locks

\* slot_manager.rs 277-298: aspire::stop(&mut proc.child).await runs inside
\* the block of the write guard on aspire_processes.
stop_aspire_locks ==
    update_slot_locks
        \o <<acquire("aspire_processes", "write"), <<"kill_if_some">>,
             release("aspire_processes")>>
        \o update_slot_locks

\* slot_manager.rs 367-413.
destroy_slot_locks ==
    <<acquire("aspire_processes", "write"), <<"kill_if_some">>,
      release("aspire_processes")>>
        \o <<acquire("agent_tailer_handles", "write"), change("remove"),
             release("agent_tailer_handles")>>
        \o get_slot_locks
        \o <<io("tmux"), io("rmdir")>>
        \o <<acquire("slots", "write"), change("retain"), release("slots")>>
        \o persist_locks

LockOps == {"start", "stop", "destroy"}

Program(o) ==
    CASE o = "start" -> start_aspire_locks
      [] o = "stop" -> stop_aspire_locks
      [] o = "destroy" -> destroy_slot_locks
      [] OTHER -> <<>>

\* The instruction task t has reached.
Instr(t) ==
    IF lk_pc[t] \in 1..Len(Program(lk_op[t])) THEN Program(lk_op[t])[lk_pc[t]] ELSE <<"end">>

\* tokio::sync::RwLock: a write guard excludes every other guard of the map,
\* a read guard excludes the write guards.
Grantable(t, map, mode) ==
    \A u \in Tasks \ {t} :
        /\ <<map, "write">> \notin lk_held[u]
        /\ mode = "write" => <<map, "read">> \notin lk_held[u]

Advance(t) == lk_pc' = [lk_pc EXCEPT ![t] = @ + 1]

\* A caller enters one of the methods.
LockCall(t, o, n) ==
    /\ lk_op[t] = "none"
    /\ lk_op' = [lk_op EXCEPT ![t] = o]
    /\ lk_arg' = [lk_arg EXCEPT ![t] = n]
    /\ lk_pc' = [lk_pc EXCEPT ![t] = 1]
    /\ UNCHANGED <<lk_held, lk_await, lk_procs>>
    /\ UNCHANGED exceptLock

\* .read().await / .write().await returns its guard.
LockAcquire(t) ==
    /\ Instr(t)[1] = "acquire"
    /\ Grantable(t, Instr(t)[2], Instr(t)[3])
    /\ lk_held' = [lk_held EXCEPT ![t] = @ \cup {<<Instr(t)[2], Instr(t)[3]>>}]
    /\ Advance(t)
    /\ UNCHANGED <<lk_op, lk_arg, lk_await, lk_procs>>
    /\ UNCHANGED exceptLock

\* The guard goes out of scope.
LockRelease(t) ==
    /\ Instr(t)[1] = "release"
    /\ lk_held' = [lk_held EXCEPT ![t] = {g \in @ : g[1] # Instr(t)[2]}]
    /\ Advance(t)
    /\ UNCHANGED <<lk_op, lk_arg, lk_await, lk_procs>>
    /\ UNCHANGED exceptLock

\* A change made in memory: a field update, a snapshot, an insert, a remove.
LockChange(t) ==
    /\ Instr(t)[1] = "change"
    /\ lk_procs' = IF Instr(t)[2] = "insert" THEN lk_procs \cup {lk_arg[t]} ELSE lk_procs
    /\ Advance(t)
    /\ UNCHANGED <<lk_op, lk_arg, lk_held, lk_await>>
    /\ UNCHANGED exceptLock

\* The task starts an external operation and is suspended at its .await.
LockIoBegin(t) ==
    /\ Instr(t)[1] = "io"
    /\ lk_await[t] = "none"
    /\ lk_await' = [lk_await EXCEPT ![t] = Instr(t)[2]]
    /\ UNCHANGED <<lk_op, lk_arg, lk_pc, lk_held, lk_procs>>
    /\ UNCHANGED exceptLock

\* slot_manager.rs 284-287 and 371-374: procs.remove(name); when there was an
\* entry its child is killed, which is awaited.
LockKillIfSome(t) ==
    /\ Instr(t)[1] = "kill_if_some"
    /\ lk_await[t] = "none"
    /\ lk_procs' = lk_procs \ {lk_arg[t]}
    /\ IF lk_arg[t] \in lk_procs
       THEN lk_await' = [lk_await EXCEPT ![t] = "kill"] /\ UNCHANGED lk_pc
       ELSE Advance(t) /\ UNCHANGED lk_await
    /\ UNCHANGED <<lk_op, lk_arg, lk_held>>
    /\ UNCHANGED exceptLock

\* The external operation completes and the task goes on.
LockIoEnd(t) ==
    /\ lk_await[t] # "none"
    /\ lk_await' = [lk_await EXCEPT ![t] = "none"]
    /\ Advance(t)
    /\ UNCHANGED <<lk_op, lk_arg, lk_held, lk_procs>>
    /\ UNCHANGED exceptLock

\* The method returns.
LockReturn(t) ==
    /\ lk_op[t] # "none"
    /\ Instr(t)[1] = "end"
    /\ lk_op' = [lk_op EXCEPT ![t] = "none"]
    /\ lk_arg' = [lk_arg EXCEPT ![t] = "none"]
    /\ lk_pc' = [lk_pc EXCEPT ![t] = 0]
    /\ UNCHANGED <<lk_held, lk_await, lk_procs>>
    /\ UNCHANGED exceptLock

\* SpecLocks: two tasks call start_aspire, stop_aspire and destroy_slot on the
\* slots "a" and "b" in every interleaving.
NextLocks ==
    \E t \in Tasks :
        \/ \E o \in LockOps, n \in Names : LockCall(t, o, n)
        \/ LockAcquire(t)
        \/ LockRelease(t)
        \/ LockChange(t)
        \/ LockIoBegin(t)
        \/ LockKillIfSome(t)
        \/ LockIoEnd(t)
        \/ LockReturn(t)

SpecLocks == Init /\ [][NextLocks]_vars

\* ------------------------------------------------------------------ log pipeline
\* A line is <<stream, n>>: the n-th line the child has written, and the
\* stream it wrote it to.
\* The stack child writes a line to its stdout or its stderr.
ChildEmit(s) ==
    /\ Len(emitted) < MaxLines
    /\ emitted' = Append(emitted, s)
    /\ pipe' = [pipe EXCEPT ![s] = Append(@, <<s, Len(emitted) + 1>>)]
    /\ UNCHANGED <<line_chan, log_chan, event_chan, log_buffer, activity>>
    /\ UNCHANGED exceptPipe

\* aspire.rs 54-62 and 66-74: the reader task of a stream takes its next
\* line and sends it on the channel both readers share.
ReadLine(s) ==
    /\ pipe[s] # <<>>
    /\ line_chan' = Append(line_chan, Head(pipe[s]))
    /\ pipe' = [pipe EXCEPT ![s] = Tail(@)]
    /\ UNCHANGED <<emitted, log_chan, event_chan, log_buffer, activity>>
    /\ UNCHANGED exceptPipe

\* slot_manager.rs 222-239: the log task receives a line and sends it to the
\* TUI as a LogLine.
LogTaskForward ==
    /\ line_chan # <<>>
    /\ log_chan' = Append(log_chan, Head(line_chan))
    /\ line_chan' = Tail(line_chan)
    /\ UNCHANGED <<emitted, pipe, event_chan, log_buffer, activity>>
    /\ UNCHANGED exceptPipe

\* main.rs 112-116: the forwarder wraps the LogLine in AppEvent::Log.
ForwardLog ==
    /\ log_chan # <<>>
    /\ event_chan' = Append(event_chan, Head(log_chan))
    /\ log_chan' = Tail(log_chan)
    /\ UNCHANGED <<emitted, pipe, line_chan, log_buffer, activity>>
    /\ UNCHANGED exceptPipe

\* app.rs 118-133, LogBuffer::push: the oldest entry goes when the buffer is
\* full.
push(entries, line) ==
    Append(IF Len(entries) >= LOG_CAPACITY THEN Tail(entries) ELSE entries, line)

\* app.rs 537-555, record_activity: one more timestamp (120 at most) and the
\* line as the last one seen.
record_activity(a, line) ==
    [log_timestamps |-> Min(a.log_timestamps + 1, MAX_TIMESTAMPS),
     last_log_line |-> Some(line)]

\* main.rs 477-485, process_event on AppEvent::Log.
ProcessLogEvent ==
    /\ event_chan # <<>>
    /\ activity' = record_activity(activity, Head(event_chan))
    /\ log_buffer' = push(log_buffer, Head(event_chan))
    /\ event_chan' = Tail(event_chan)
    /\ UNCHANGED <<emitted, pipe, line_chan, log_chan>>
    /\ UNCHANGED exceptPipe

\* SpecPipe: the output of the stack child of one slot on its way to the TUI.
NextPipe ==
    \/ \E s \in Streams : ChildEmit(s)
    \/ \E s \in Streams : ReadLine(s)
    \/ LogTaskForward
    \/ ForwardLog
    \/ ProcessLogEvent

SpecPipe == Init /\ [][NextPipe]_vars

\* ------------------------------------------------------------------ agent_host::spawn
\* An earlier host of the slot (an earlier spawn_agent): host.rs 54-65 writes
\* .agent-host.json.
EarlierHostStarts ==
    /\ sp_earlier = "none"
    /\ sp_pc = "idle"
    /\ sp_earlier' = "serving"
    /\ sp_info' = "earlier"
    /\ UNCHANGED <<sp_pc, sp_polls, sp_ret, sp_host>>
    /\ UNCHANGED exceptSpawn

\* It ends: after the exit of its child it removes the file at the path
\* (host.rs 159), whoever wrote it; ended by the kill message
\* (std::process::exit, host.rs 237) or by a signal it leaves the file.
EarlierHostEnds(how) ==
    /\ sp_earlier = "serving"
    /\ sp_earlier' = how
    /\ sp_info' = IF how = "exited" THEN "none" ELSE sp_info
    /\ UNCHANGED <<sp_pc, sp_polls, sp_ret, sp_host>>
    /\ UNCHANGED exceptSpawn

\* agent_host.rs 89-135: the host directory is made and the host process
\* launched, or one of the two fails.
SpawnCall ==
    /\ sp_pc = "idle"
    /\ sp_ret = "none"
    /\ \/ /\ sp_pc' = "polling"
          /\ sp_host' = "starting"
          /\ UNCHANGED sp_ret
       \/ /\ sp_ret' = "AgentHost"
          /\ UNCHANGED <<sp_pc, sp_host>>
    /\ UNCHANGED <<sp_polls, sp_info, sp_earlier>>
    /\ UNCHANGED exceptSpawn

\* host.rs 30-65: the launched host opens the PTY, spawns the command, binds
\* its listener and writes .agent-host.json; or it fails on the way and ends.
LaunchedHostWrites ==
    /\ sp_host = "starting"
    /\ \/ sp_host' = "serving" /\ sp_info' = "launched"
       \/ sp_host' = "failed" /\ UNCHANGED sp_info
    /\ UNCHANGED <<sp_pc, sp_polls, sp_ret, sp_earlier>>
    /\ UNCHANGED exceptSpawn

\* agent_host.rs 139-144: one round of the loop: Ok when the path exists,
\* else a sleep of 250 ms.
SpawnPoll ==
    /\ sp_pc = "polling"
    /\ sp_polls < MAX_POLLS
    /\ IF sp_info # "none"
       THEN sp_pc' = "idle" /\ sp_ret' = "Ok" /\ UNCHANGED sp_polls
       ELSE sp_polls' = sp_polls + 1 /\ UNCHANGED <<sp_pc, sp_ret>>
    /\ UNCHANGED <<sp_info, sp_host, sp_earlier>>
    /\ UNCHANGED exceptSpawn

\* agent_host.rs 146-148: the loop is over.
SpawnTimeout ==
    /\ sp_pc = "polling"
    /\ sp_polls = MAX_POLLS
    /\ sp_pc' = "idle"
    /\ sp_ret' = "AgentHost"
    /\ UNCHANGED <<sp_polls, sp_info, sp_host, sp_earlier>>
    /\ UNCHANGED exceptSpawn

\* SpecSpawn: one call of agent_host::spawn for a slot that may have had a
\* host before.
NextSpawn ==
    \/ EarlierHostStarts
    \/ \E how \in {"exited", "killed"} : EarlierHostEnds(how)
    \/ SpawnCall
    \/ LaunchedHostWrites
    \/ SpawnPoll
    \/ SpawnTimeout

SpecSpawn == Init /\ [][NextSpawn]_vars

\* ------------------------------------------------------------------ attention
\* Time passes on the monotonic clock.
ClockAdvance ==
    /\ at_now + ClockStep <= MaxNow
    /\ at_now' = at_now + ClockStep
    /\ UNCHANGED <<at_status, at_agent, at_stamps, at_last, at_attention>>
    /\ UNCHANGED exceptAttn

\* main.rs 470: a tick replaces App.slots by the registry's snapshot.
SlotsRefresh(st, ag) ==
    /\ <<st, ag>> # <<at_status, at_agent>>
    /\ at_status' = st
    /\ at_agent' = ag
    /\ UNCHANGED <<at_now, at_stamps, at_last, at_attention>>
    /\ UNCHANGED exceptAttn

\* app.rs 537-543, record_activity: the time of the log event goes to the
\* back of the deque.
RecordActivity ==
    /\ Len(at_stamps) < MaxStamps
    /\ at_stamps' = Append(at_stamps, at_now)
    /\ at_last' = Some(at_now)
    /\ UNCHANGED <<at_now, at_status, at_agent, at_attention>>
    /\ UNCHANGED exceptAttn

\* app.rs 566-572: the timestamps at the front that are older than the
\* window are dropped.
RECURSIVE Pruned(_, _)
Pruned(stamps, now) ==
    IF stamps # <<>> /\ now - Head(stamps) > WINDOW_SECS
    THEN Pruned(Tail(stamps), now)
    ELSE stamps

\* app.rs 590-609: the attention flag, from the statuses and the pruned
\* deque.
needs_attention(st, ag, stamps, now) ==
    IF ag = "Blocked" THEN TRUE
    ELSE IF st = "Error" THEN TRUE
    ELSE IF ag = "Active"
         THEN stamps # <<>> /\ now - stamps[Len(stamps)] >= IDLE_SECS
         ELSE FALSE

\* app.rs 558-613, recompute_activity for the slot.
Recompute ==
    /\ at_stamps' = Pruned(at_stamps, at_now)
    /\ at_attention' = needs_attention(at_status, at_agent, at_stamps', at_now)
    /\ UNCHANGED <<at_now, at_status, at_agent, at_last>>
    /\ UNCHANGED exceptAttn

\* SpecAttn: the activity record of one slot under log events, ticks and
\* changes of the slot's statuses.
NextAttn ==
    \/ ClockAdvance
    \/ \E st \in SlotStatuses, ag \in AgentStatuses : SlotsRefresh(st, ag)
    \/ RecordActivity
    \/ Recompute

SpecAttn == Init /\ [][NextAttn]_vars

\* ------------------------------------------------------------------ log tailer
\* str::lines: the pieces between line feeds; what follows the last line
\* feed is a line too when it is not empty.
RECURSIVE lines(_)
lines(content) ==
    IF content = <<>> THEN <<>>
    ELSE IF \E i \in 1..Len(content) : content[i] = LF
         THEN LET i == CHOOSE j \in 1..Len(content) :
                           content[j] = LF /\ \A k \in 1..(j - 1) : content[k] # LF
              IN  <<SubSeq(content, 1, i - 1)>> \o lines(SubSeq(content, i + 1, Len(content)))
         ELSE <<content>>

NonEmpty(ls) == SelectSeq(ls, LAMBDA l : l # <<>>)

\* The agent (or spawn_agent, slot_manager.rs 320) creates the log file.
FileCreate ==
    /\ ~tl_exists
    /\ tl_exists' = TRUE
    /\ tl_file' = <<>>
    /\ UNCHANGED <<tl_pc, tl_pos, tl_sent, tl_appended, tl_seen, tl_closed, tl_ops>>
    /\ UNCHANGED exceptTail

\* A whole line, with its line feed, is appended to the file.
FileAppend(l) ==
    /\ tl_exists
    /\ tl_ops < MaxFileOps
    /\ tl_ops' = tl_ops + 1
    /\ tl_file' = tl_file \o l \o <<LF>>
    /\ tl_appended' = Append(tl_appended, l)
    /\ tl_seen' = FALSE
    /\ UNCHANGED <<tl_pc, tl_exists, tl_pos, tl_sent, tl_closed>>
    /\ UNCHANGED exceptTail

\* The file is truncated to length 0 (slot_manager.rs 320, a new agent run).
FileTruncate ==
    /\ tl_exists
    /\ tl_file # <<>>
    /\ tl_ops < MaxFileOps
    /\ tl_ops' = tl_ops + 1
    /\ tl_file' = <<>>
    /\ tl_seen' = FALSE
    /\ UNCHANGED <<tl_pc, tl_exists, tl_pos, tl_sent, tl_appended, tl_closed>>
    /\ UNCHANGED exceptTail

\* The TUI drops the receiver of the channel.
ReceiverClose ==
    /\ ~tl_closed
    /\ tl_closed' = TRUE
    /\ UNCHANGED <<tl_pc, tl_exists, tl_file, tl_pos, tl_sent, tl_appended, tl_seen, tl_ops>>
    /\ UNCHANGED exceptTail

\* log_tailer.rs 35-37: the task sleeps until the file exists; it looks at
\* nothing else.
TailWait ==
    /\ tl_pc = "waiting"
    /\ tl_exists
    /\ tl_pc' = "polling"
    /\ UNCHANGED <<tl_exists, tl_file, tl_pos, tl_sent, tl_appended, tl_seen, tl_closed, tl_ops>>
    /\ UNCHANGED exceptTail

\* log_tailer.rs 56-86, read_new_content: the position it returns and the
\* lines it sends, for a file of these bytes.
new_position(file, last_position) ==
    IF Len(file) <= last_position THEN last_position ELSE Len(file)

new_lines(file, last_position) ==
    IF Len(file) <= last_position THEN <<>>
    ELSE NonEmpty(lines(SubSeq(file, last_position + 1, Len(file))))

\* log_tailer.rs 40-52: one round of the loop: a tick, read_new_content, and
\* the end of the task when the channel is closed.  A send on a closed
\* channel fails and its result is dropped.
TailPoll ==
    /\ tl_pc = "polling"
    /\ tl_pos' = new_position(tl_file, tl_pos)
    /\ tl_sent' = IF tl_closed THEN tl_sent ELSE tl_sent \o new_lines(tl_file, tl_pos)
    /\ tl_seen' = TRUE
    /\ tl_pc' = IF tl_closed THEN "done" ELSE "polling"
    /\ UNCHANGED <<tl_exists, tl_file, tl_appended, tl_closed, tl_ops>>
    /\ UNCHANGED exceptTail

\* SpecTail: one tailer, a log file that is created, appended to and
\* truncated, and a receiver that may be dropped.
NextTail ==
    \/ FileCreate
    \/ \E l \in FileLines : FileAppend(l)
    \/ FileTruncate
    \/ ReceiverClose
    \/ TailWait
    \/ TailPoll

SpecTail == Init /\ [][NextTail]_vars

\* SpecTailLive: the same, with the tailer task scheduled again and again.
SpecTailLive == Init /\ [][NextTail]_vars /\ WF_vars(TailWait) /\ WF_vars(TailPoll)

\* ------------------------------------------------------------------ claims
\* C1. After any sequence of create_slot and destroy_slot calls, failed ones
\* included, the ports the allocator tracks are exactly the ports held by the
\* slots of the registry.
C1_TrackedPortsAreHeldPorts ==
    Quiescent => allocated = HeldPorts(slots)

\* The step of task t is a call create_slot(n): it either goes on to the clone
\* or returns from the uniqueness check.
IsCreateCall(t, n) ==
    /\ pc[t] = "idle"
    /\ \/ pc'[t] = "c_clone" /\ arg'[t] = n
       \/ ret'.task = t /\ ret'.op = "create" /\ ret'.name = n /\ ret'.at = "c_check"

\* C2. create_slot(n) called while a slot named n is in the registry returns
\* SlotAlreadyExists and leaves the registry, state.json and the allocator's
\* port set as they were.
C2_DuplicateCreateRejected ==
    [][\A t \in Tasks, n \in Names :
          (IsCreateCall(t, n) /\ n \in SlotNames(slots)) =>
              /\ ret'.res = "SlotAlreadyExists"
              /\ pc'[t] = "idle"
              /\ slots' = slots
              /\ state_file' = state_file
              /\ allocated' = allocated]_vars

C2_Witness ==
    /\ ret.op = "create"
    /\ ret.res = "SlotAlreadyExists"
    /\ ret.name \in SlotNames(slots)
    /\ allocated # {}

\* C3. The registry never holds two slots with the same name.
C3_NamesUnique ==
    \A i, j \in DOMAIN slots : i # j => slots[i].name # slots[j].name

\* C4. When stop_service_stack returns the error of a failed kill for a slot
\* of the registry, that slot's recorded status is Ready.
C4_KillFailureLeavesReady ==
    (ret.op = "stop" /\ ret.res = "Aspire" /\ ret.name \in SlotNames(slots)) =>
        slots[FindSlot(slots, ret.name)].status = "Ready"

\* The step is one of task t.
StepOf(t) == <<pc[t], arg[t], loc[t]>> # <<pc'[t], arg'[t], loc'[t]>>

DestroyPcs == {"d_tailer", "d_get", "d_tmux", "d_rmdir", "d_release", "d_retain"}

\* C8. destroy_slot on an existing slot, whichever of its sub-steps fail, does
\* not return before its last step; when it returns, no slot of that name is
\* in the registry, none of the slot's ports is tracked by the allocator, and
\* the live-stack map and the tailer-handle map have no entry for the name.
C8_DestroyAlwaysTearsDown ==
    [][\A t \in Tasks :
          (pc[t] \in DestroyPcs /\ pc'[t] = "idle") =>
              /\ pc[t] = "d_retain"
              /\ loc[t].found =>
                   /\ arg[t] \notin SlotNames(slots')
                   /\ PortsOf(loc[t].ports) \cap allocated' = {}
                   /\ arg[t] \notin aspire_processes'
                   /\ arg[t] \notin agent_tailer_handles']_vars

\* destroy_slot has returned after the kill of the stack child, the kill of
\* the session and the removal of the clone directory all failed, for a slot
\* that held ports.
C8_Witness ==
    /\ ret.op = "destroy"
    /\ ret.fails = {"kill", "tmux", "rmdir"}
    /\ ret.ports # {}
    /\ slots = <<>>

CreatePcsBeforePush == {"c_clone", "c_checkout", "c_alloc", "c_alloc_rand", "c_tmux"}

\* C9. No step of create_slot before the insertion (the call, the clone, the
\* checkout, the manifest load, the port allocation, the session and setup
\* commands), failing or not, changes the registry or state.json.
C9_FailedCreateLeavesRegistry ==
    [][\A t \in Tasks :
          (StepOf(t) /\ (pc[t] \in CreatePcsBeforePush \/ pc'[t] \in CreatePcsBeforePush)) =>
              /\ slots' = slots
              /\ state_file' = state_file]_vars

\* create_slot has failed in the session or setup step, after its ports were
\* allocated, while another slot is in the registry.
C9_Witness ==
    /\ ret.op = "create"
    /\ ret.res = "Tmux"
    /\ ret.ports # {}
    /\ slots # <<>>

\* C10. Whenever no operation is in progress, the slot list stored in
\* state.json equals the registry (no write of state.json having failed).
C10_StateFileEqualsRegistry ==
    (Quiescent /\ persist_failures = 0) => state_file = slots

\* C5. The frames read_frame has returned are the first frames written, in
\* order, each with the written channel, with the length min(len, 65535) and
\* with the payload bytes found right behind its own header; the length in
\* every header is the number of payload bytes written behind it; and when
\* everything written has arrived and read_frame cannot go on, every frame
\* has been returned and read_frame stands at a frame boundary.
C5_FramesRoundTrip ==
    /\ Len(received) <= Len(written)
    /\ \A i \in 1..Len(received) :
          /\ received[i].channel = written[i].channel
          /\ received[i].len = Min(written[i].plen, 65535)
          /\ received[i].first = FrameStart(written, i) + 4
          /\ received[i].len > 0 =>
                /\ received[i].b1 = PayloadByte(i, 1)
                /\ received[i].bn = PayloadByte(i, received[i].len)
    /\ \A k \in 1..Len(written) :
          written[k].header[2] + 256 * written[k].header[3] = written[k].nbytes
    /\ (delivered = StreamLen(written) /\ ~ReaderCanStep) =>
          /\ Len(received) = Len(written)
          /\ reader.pc = "channel"
          /\ reader.pos = delivered

\* Two frames have been read, the first written with a payload of more than
\* 65535 bytes, the second with a short one.
C5_Witness ==
    /\ Len(received) = 2
    /\ written[1].plen > 65535
    /\ written[2].plen = 2
    /\ received[2].len = 2

\* C6. A client connected when the agent child has exited with code c, once
\* it has read everything the host has sent it after the exit announcement,
\* has read a frame with channel 0x03 and payload {"exited":c}.
C6_ClientReadsExitControlFrame ==
    \A k \in Clients :
        (/\ cstate[k] # "none"
         /\ h_pc \in {"announced", "cleaned"}
         /\ writer[k] = "running"
         /\ ~rx[k].lagged
         /\ rx[k].items = <<>>
         /\ sock[k] = <<>>) =>
            \E i \in 1..Len(got[k]) : got[k][i] = <<3, ExitJson(exit_code)>>

\* The exit announcement has been written to client k's socket.
ExitWritten(k) ==
    /\ h_pc \in {"announced", "cleaned", "terminated"}
    /\ \A i \in 1..Len(rx[k].items) :
          rx[k].items[i] # Frame(CHANNEL_CONTROL, ExitJson(exit_code))

\* C7. Once the host has removed .agent-host.json, the exit announcement has
\* been written to the socket of every connected client; and a client that
\* has observed the end of its stream has read the exit announcement before.
C7_ExitWrittenBeforeCleanup ==
    \A k \in Clients :
        cstate[k] # "none" =>
            /\ h_pc \in {"cleaned", "terminated"} => ExitWritten(k)
            /\ cstate[k] = "eof" =>
                  \E i \in 1..Len(got[k]) : ContainsExited(got[k][i][2])

\* C11. No port number is in the port_allocations of two different slots of
\* the registry.
C11_PortsOwnedByOneSlot ==
    \A i, j \in DOMAIN slots :
        i # j => PortsOf(slots[i].port_allocations) \cap PortsOf(slots[j].port_allocations) = {}

\* The failure events sent for target number k.
FailureEventsFor(k) == {e \in 1..Len(b_events) : b_events[e].failure = k}

\* The calls of operation op made for target number k.
CallsFor(op, k) == {c \in 1..Len(b_calls) : b_calls[c].op = op /\ b_calls[c].target = k}

\* C12. A batch operation calls its per-slot operation once for every target,
\* in list order, whatever the earlier calls returned (all targets have been
\* called when the batch is done), and has sent exactly one failure event,
\* naming the slot, for every target whose call returned an error, none for
\* the others.
C12_BatchCallsEveryTargetOnce ==
    b_kind \in BatchKinds =>
        /\ Len(b_calls) <= Len(b_targets)
        /\ \A k \in 1..Len(b_calls) :
              /\ b_calls[k].op = BatchOp(b_kind)
              /\ b_calls[k].target = k
              /\ b_calls[k].name = b_targets[k].name
        /\ b_pc = "done" => Len(b_calls) = Len(b_targets)
        /\ \A k \in 1..Len(b_targets) :
              Cardinality(FailureEventsFor(k)) =
                  IF k <= Len(b_calls) /\ b_calls[k].res = "Err" THEN 1 ELSE 0
        /\ \A e \in 1..Len(b_events) :
              b_events[e].failure # 0 => b_events[e].failed = b_targets[b_events[e].failure].name

\* destroy-all over two targets is done, both calls having failed.
C12_Witness ==
    /\ b_kind = "destroy_all"
    /\ b_pc = "done"
    /\ Len(b_calls) = 2
    /\ b_calls[1].res = "Err"
    /\ b_calls[2].res = "Err"

DoneEvents == {e \in 1..Len(b_events) : b_events[e].done}

\* C13. A launched batch task sends at most one done event, that event is
\* the last progress event of the batch and carries completed = total, the
\* completed values of its events never decrease, and the task eventually
\* sends the done event.
C13_BatchEndsWithOneDoneEvent ==
    /\ [](/\ Cardinality(DoneEvents) <= 1
          /\ \A e \in DoneEvents :
                e = Len(b_events) /\ b_events[e].completed = b_events[e].total
          /\ \A e \in 1..Len(b_events) :
                e > 1 => b_events[e - 1].completed <= b_events[e].completed)
    /\ (b_kind # "none") ~> (Cardinality(DoneEvents) = 1)

\* start-all over two targets has sent its done event after a failure.
C13_Witness ==
    /\ b_kind = "start_all"
    /\ Len(b_targets) = 2
    /\ Cardinality(DoneEvents) = 1
    /\ FailureEventsFor(1) # {}

\* C14. Blueprint load calls create_slot once for every resolved slot, in
\* order; once a slot has been processed, start_aspire has been called for it
\* (once) iff its create_slot returned Ok and its auto_start_aspire flag is
\* set; a failure of either call has been reported by exactly one failure
\* event for that slot; and every slot has been processed when the batch is
\* done.
C14_BlueprintLoadProcessesEverySlot ==
    b_kind = "blueprint" =>
        /\ \A k \in 1..Len(b_targets) :
              /\ Cardinality(CallsFor("create_slot", k)) = (IF k <= b_i \/ (k = b_i + 1 /\ b_pc # "iter") THEN 1 ELSE 0)
              /\ \A c \in CallsFor("create_slot", k) : b_calls[c].name = b_targets[k].name
              /\ k <= b_i =>
                    Cardinality(CallsFor("start_aspire", k)) =
                        (IF b_targets[k].auto_start
                            /\ \E c \in CallsFor("create_slot", k) : b_calls[c].res = "Ok"
                         THEN 1 ELSE 0)
              /\ Cardinality(CallsFor("start_aspire", k)) <= 1
              /\ Cardinality(FailureEventsFor(k)) =
                    Cardinality({c \in 1..Len(b_calls) :
                                    b_calls[c].target = k /\ b_calls[c].res = "Err"})
        /\ \A c, d \in 1..Len(b_calls) :
              (c < d /\ b_calls[c].op = "create_slot" /\ b_calls[d].op = "create_slot") =>
                  b_calls[c].target < b_calls[d].target
        /\ (b_pc = "done" /\ b_events[1].done = FALSE) => b_i = Len(b_targets)

\* A blueprint of two slots is loaded: the first slot's create_slot failed,
\* the second was created and its start_aspire failed.
C14_Witness ==
    /\ b_kind = "blueprint"
    /\ b_pc = "done"
    /\ Len(b_calls) = 3
    /\ b_calls[1].res = "Err"
    /\ b_calls[2].res = "Ok"
    /\ b_calls[3].op = "start_aspire"
    /\ b_calls[3].res = "Err"

\* The text the claims expect of a prompt: each template variable of the
\* template gives way to its value, and nothing else changes.
Substituted(template, slot_name, branch) ==
    LET Piece(x) == IF x = VAR_SLOT_NAME THEN slot_name
                    ELSE IF x = VAR_BRANCH THEN branch ELSE <<x>>
        Upto[i \in 0..Len(template)] ==
            IF i = 0 THEN <<>> ELSE Upto[i - 1] \o Piece(template[i])
    IN  Upto[Len(template)]

\* The source an entry has once the default source is merged in.
MergedSource(bp, i) ==
    IF bp.slots[i].source # None THEN bp.slots[i].source
    ELSE IF bp.defaults # None THEN bp.defaults[1].source ELSE None

\* C15: resolve succeeds exactly when validate passes and every entry, with the
\* default source merged in, has a source that is not empty.
C15_ResolveIffValidAndSourced ==
    bp_ret.op = "resolve" =>
        (bp_ret.res.ok <=>
            /\ validate(blueprint).ok
            /\ \A i \in 1..Len(blueprint.slots) :
                  /\ MergedSource(blueprint, i) # None
                  /\ MergedSource(blueprint, i)[1] # <<>>)

\* One field of the agent configuration, the entry's value before the default's.
MergedAgentField(bp, i, f) ==
    IF bp.slots[i].agent # None /\ bp.slots[i].agent[1][f] # None
       THEN bp.slots[i].agent[1][f]
    ELSE IF bp.defaults # None /\ bp.defaults[1].agent # None
       THEN bp.defaults[1].agent[1][f]
    ELSE None

\* One auto flag: the entry's if present, else the default's if present, else false.
MergedFlag(bp, i, f) ==
    IF bp.slots[i][f] # None THEN bp.slots[i][f][1]
    ELSE IF bp.defaults # None /\ bp.defaults[1][f] # None THEN bp.defaults[1][f][1]
    ELSE FALSE

\* The record the claim expects for entry i.
ExpectedResolved(bp, i) ==
    LET e == bp.slots[i]
        t == MergedAgentField(bp, i, "prompt_template")
    IN  [name |-> e.name,
         source |-> MergedSource(bp, i)[1],
         branch |-> e.branch,
         auto_start_aspire |-> MergedFlag(bp, i, "auto_start_aspire"),
         auto_spawn_agent |-> MergedFlag(bp, i, "auto_spawn_agent"),
         prompt |-> IF t = None THEN None
                    ELSE Some(Substituted(t[1], e.name,
                                          IF e.branch # None THEN e.branch[1] ELSE MAIN)),
         allowed_tools |-> MergedAgentField(bp, i, "allowed_tools"),
         max_turns |-> MergedAgentField(bp, i, "max_turns")]

\* C16: a blueprint that resolves gives one record per entry, in entry order,
\* each with the entry's name and branch, the merged source, flags and agent
\* fields, and the merged prompt template with {slot_name} and {branch}
\* replaced by the entry's name and branch ("main" without a branch).
C16_ResolvedRecordsAreMergedEntries ==
    (bp_ret.op = "resolve" /\ bp_ret.res.ok) =>
        /\ Len(bp_ret.res.slots) = Len(blueprint.slots)
        /\ \A i \in 1..Len(blueprint.slots) :
              bp_ret.res.slots[i] = ExpectedResolved(blueprint, i)

\* The name-keyed map the calls of a log describe: save adds a name that is
\* not stored, overwrite sets it, delete removes it.
RECURSIVE NameKeyedMap(_)
NameKeyedMap(log) ==
    IF log = <<>> THEN <<>>
    ELSE LET m == NameKeyedMap(SubSeq(log, 1, Len(log) - 1))
             e == log[Len(log)]
         IN  IF e.op = "overwrite" \/ (e.op = "save" /\ e.name \notin DOMAIN m)
                THEN [n \in DOMAIN m \cup {e.name} |-> IF n = e.name THEN e.bp[1] ELSE m[n]]
             ELSE IF e.op = "delete"
                THEN [n \in DOMAIN m \ {e.name} |-> m[n]]
             ELSE m

\* q lists exactly the names of S, in sorted order.
IsSortedListOf(q, S) ==
    /\ {q[i] : i \in 1..Len(q)} = S
    /\ \A i \in 1..Len(q) - 1 : StrLess(q[i], q[i + 1])

\* C17: every call of the blueprint store returns what a name-keyed map
\* returns: load the blueprint last written under the name and not since
\* deleted, list the stored names in sorted order, save of a stored name
\* BlueprintAlreadyExists, load and delete of a name not stored
\* BlueprintNotFound.
C17_StoreIsNameKeyedMap ==
    store_log # <<>> =>
        LET e == store_log[Len(store_log)]
            m == NameKeyedMap(SubSeq(store_log, 1, Len(store_log) - 1))
        IN  /\ e.op = "save" =>
                  e.ret.res = (IF e.name \in DOMAIN m THEN "BlueprintAlreadyExists" ELSE "Ok")
            /\ e.op = "overwrite" => e.ret.res = "Ok"
            /\ e.op = "delete" =>
                  e.ret.res = (IF e.name \in DOMAIN m THEN "Ok" ELSE "BlueprintNotFound")
            /\ e.op = "load" =>
                  e.ret = (IF e.name \in DOMAIN m THEN [res |-> "Ok", value |-> m[e.name]]
                           ELSE [res |-> "BlueprintNotFound"])
            /\ e.op = "list" => e.ret.res = "Ok" /\ IsSortedListOf(e.ret.value, DOMAIN m)

\* A refused save of a stored name is followed by a load that returns the
\* blueprint stored before, which differs from the one refused.
C17_Witness ==
    /\ Len(store_log) = 3
    /\ store_log[1].op = "overwrite"
    /\ store_log[2].op = "save" /\ store_log[2].ret.res = "BlueprintAlreadyExists"
    /\ store_log[2].name = store_log[1].name /\ store_log[2].bp # store_log[1].bp
    /\ store_log[3].op = "load" /\ store_log[3].name = store_log[1].name
    /\ store_log[3].ret = [res |-> "Ok", value |-> store_log[1].bp[1]]

\* C20: allocate never returns a port that was tracked when it was called; a
\* returned port is tracked afterwards; it fails only when the bind failed or
\* 100 candidates in a row were tracked already; a failed call leaves the
\* tracked set as it was.
C20_AllocateReturnsUntrackedPort ==
    /\ alloc_ret.res = "Ok" =>
          /\ alloc_ret.port \notin alloc_before
          /\ alloc_ret.port \in allocated
    /\ alloc_ret.res = "PortAllocation" =>
          /\ alloc_ret.cause = "bind" \/ alloc_rejected = 100
          /\ allocated = alloc_before

\* allocate has failed because the loop ran out, with ports tracked.
C20_Witness ==
    /\ alloc_ret.res = "PortAllocation" /\ alloc_ret.cause = "attempts"
    /\ alloc_before # {}

\* C18: a load that is not refused by the file system returns the list of the
\* most recent save that succeeded, and the empty list when state.json was
\* never written.
C18_LoadReturnsLastSavedList ==
    (st_ret.op = "load" /\ st_ret.res # "State") =>
        /\ st_saved # None => st_ret = [op |-> "load", res |-> "Ok", value |-> st_saved[1]]
        /\ state_json.kind = "absent" => st_ret = [op |-> "load", res |-> "Ok", value |-> <<>>]

\* The URLs text shows after a phrase.
UrlsAfter(text, phrase) ==
    {CaptureAt(text, i, {phrase}) : i \in Matches(text, {phrase})}

\* C19: every service name the shorter text maps to an URL is mapped to the
\* same URL by the longer text, and the dashboard URL of the longer text is
\* that of the shorter one, or a 'Login to the dashboard at' URL in place of
\* a 'Now listening on' URL (or of none).
C19_LongerLogOnlyAddsOrUpgrades ==
    (log_short.done /\ log_long.done) =>
        LET S == log_short.services
            T == log_long.services
            whole == full_log(log_lines)
            part == full_log(SubSeq(log_lines, 1, log_cut))
        IN  /\ \A n \in DOMAIN S.service_urls :
                  n \in DOMAIN T.service_urls /\ T.service_urls[n] = S.service_urls[n]
            /\ \/ T.dashboard_url = S.dashboard_url
               \/ S.dashboard_url = None
               \/ /\ S.dashboard_url \in UrlsAfter(part, NOW)
                  /\ T.dashboard_url \in UrlsAfter(whole, LOGIN)

\* The keys of a set of allocations.
KeysOf(allocs) == {a[1] : a \in allocs}

CreatePcs == CreatePcsBeforePush \cup {"c_push"}

\* C22: create_slot on a clone without manifest never returns a loader error
\* and never changes the allocator's set, and the slot it inserts has no port
\* allocations; on a clone whose manifest does not load, the step that loads
\* it returns the loader's error unless the checkout before it failed, and
\* nothing is inserted.
C22_MissingManifestIsSkipped ==
    [][\A t \in Tasks :
          (StepOf(t) /\ pc[t] \in CreatePcs) =>
              /\ loc[t].manifest = "none" =>
                    /\ allocated' = allocated
                    /\ ret'.res \notin {"ConfigNotFound", "InvalidConfig"}
                    /\ pc'[t] \notin {"c_alloc", "c_alloc_rand"}
                    /\ slots' # slots =>
                          /\ Len(slots') = Len(slots) + 1
                          /\ slots'[Len(slots')].name = arg[t]
                          /\ slots'[Len(slots')].port_allocations = {}
              /\ (loc[t].manifest = "invalid" /\ pc[t] = "c_checkout") =>
                    /\ pc'[t] = "idle"
                    /\ ret'.op = "create" /\ ret'.res \in {"Git", "InvalidConfig"}
                    /\ ret'.at = "c_config" => ret'.res = "InvalidConfig"
                    /\ slots' = slots /\ allocated' = allocated]_vars

\* create_slot has succeeded without a manifest while the allocator tracks
\* the ports of another slot.
C22_Witness ==
    /\ ret.op = "create" /\ ret.res = "Ok" /\ ret.ports = {}
    /\ allocated # {}
    /\ \E i \in DOMAIN slots : slots[i].name = ret.name /\ slots[i].port_allocations = {}

\* A kill control frame is the next frame the host reads from client k.
KillIsNext(k) ==
    /\ FrameComplete(to_host[k])
    /\ to_host[k][1] = CHANNEL_CONTROL
    /\ SubSeq(to_host[k], 4, 3 + to_host[k][2] + 256 * to_host[k][3]) = KillJson

\* C23: the host process ends with exit status 1 when it reads a kill control
\* message from any client, and with exit status 1 when a read of the PTY
\* master has failed with an error; it ends with exit status 0 when it ends
\* after announcing the exit of the child.
C23_HostExitStatus ==
    /\ [][\A k \in Clients :
            KillIsNext(k) /\ to_host'[k] # to_host[k]
                => h_pc' = "terminated" /\ host_status' = Some(1)]_vars
    /\ [](h_pc = "terminated" /\ pty_reader = "failed" => host_status = Some(1))
    /\ [][h_pc = "cleaned" /\ h_pc' = "terminated" /\ to_host' = to_host
            => host_status' = Some(0)]_vars

\* The two parts of C23 that the host keeps: the kill message ends it with
\* status 1, the return after the announcement with status 0.
C23_KillAndCleanExit ==
    /\ [][\A k \in Clients :
            KillIsNext(k) /\ to_host'[k] # to_host[k]
                => h_pc' = "terminated" /\ host_status' = Some(1)]_vars
    /\ [][h_pc = "cleaned" /\ h_pc' = "terminated" /\ to_host' = to_host
            => host_status' = Some(0)]_vars


\* C24: no task holds a guard of the slot registry, of the live-stack map or
\* of the tailer-handle map while it awaits external I/O (the kill of a child,
\* the write of state.json).
C24_NoLockAcrossIo ==
    \A t \in Tasks : lk_await[t] # "none" => lk_held[t] = {}

\* What holds instead: a task awaits I/O under a guard only in persist (the
\* read guard of the registry, across the save) and in the kill of a stack
\* child (the write guard of the live-stack map).
C24_LocksHeldAcrossIo ==
    \A t \in Tasks :
        lk_await[t] # "none" /\ lk_held[t] # {} =>
            \/ lk_await[t] = "save" /\ lk_held[t] = {<<"slots", "read">>}
            \/ lk_await[t] = "kill" /\ lk_held[t] = {<<"aspire_processes", "write">>}

\* The services recorded for the slot named n (0: none).
ServicesOf(n) == slots[FindSlot(slots, n)].services

\* C25: when stop_aspire(name) has returned Ok for a slot of the registry,
\* the slot's discovered services are empty, and they are still empty after
\* the step that follows the return, whichever task takes it, unless that
\* step is the entry of a start_aspire call.
C25_ServicesStayClearedAfterStop ==
    /\ [](ret.op = "stop" /\ ret.res = "Ok" /\ NameTaken(slots, ret.name)
            => ServicesOf(ret.name) = 0)
    /\ [][(/\ ret.op = "stop" /\ ret.res = "Ok"
           /\ NameTaken(slots, ret.name)
           /\ NameTaken(slots', ret.name)
           /\ ~\E t \in Tasks : pc[t] = "idle" /\ pc'[t] = "s_starting")
            => slots'[FindSlot(slots', ret.name)].services = 0]_vars

\* The part of C25 that holds: at the return of a successful stop_aspire the
\* services of the slot are empty.
C25_ServicesClearedAtReturn ==
    (ret.op = "stop" /\ ret.res = "Ok" /\ NameTaken(slots, ret.name))
        => ServicesOf(ret.name) = 0

\* The edges of the slot lifecycle.
StatusEdges ==
    {<<"Provisioning", "Ready">>, <<"Ready", "Starting">>, <<"Starting", "Running">>,
     <<"Running", "Stopping">>, <<"Stopping", "Ready">>}

\* C26: every change of the status of a slot that stays in the registry
\* follows Provisioning -> Ready, Ready -> Starting, Starting -> Running,
\* Running -> Stopping, Stopping -> Ready, or leads into Error.
C26_StatusFollowsLifecycle ==
    [][\A n \in Names :
         (NameTaken(slots, n) /\ NameTaken(slots', n)) =>
            LET old == slots[FindSlot(slots, n)].status
                new == slots'[FindSlot(slots', n)].status
            IN  old # new => (<<old, new>> \in StatusEdges \/ new = "Error")]_vars

\* What the Slot Manager does instead: start_aspire sets Starting and then
\* Running, stop_aspire sets Stopping and then Ready, each whatever the
\* status was; Error is never set.
C26_StatusSetByOperation ==
    [][\A n \in Names :
         (NameTaken(slots, n) /\ NameTaken(slots', n)) =>
            LET old == slots[FindSlot(slots, n)].status
                new == slots'[FindSlot(slots', n)].status
            IN  old # new =>
                  \E t \in Tasks :
                     \/ pc[t] = "s_starting" /\ new = "Starting"
                     \/ pc[t] = "s_running" /\ new = "Running"
                     \/ pc[t] = "idle" /\ pc'[t] \in {"st_kill", "idle"} /\ new = "Stopping"
                     \/ pc[t] = "st_ready" /\ new = "Ready"]_vars

\* C27: whenever no call is in progress, the clone directory of a name exists
\* exactly when a slot of that name is in the registry; so a create_slot that
\* failed has left no directory behind, and neither has a destroy_slot that
\* has returned.
C27_CloneDirIffRegistered ==
    Quiescent => \A n \in Names : n \in clone_dirs <=> NameTaken(slots, n)

\* What holds instead: a clone directory appears only with the clone step of
\* create_slot and goes only with the remove_dir_all of destroy_slot.
C27_CloneDirSetByCloneAndRmdir ==
    [][clone_dirs' # clone_dirs =>
         \E t \in Tasks : \/ pc[t] = "c_clone" /\ clone_dirs' = clone_dirs \cup {arg[t]}
                          \/ pc[t] = "d_rmdir" /\ clone_dirs' = clone_dirs \ {arg[t]}]_vars

\* C28: whatever the receive queues of the clients hold, the PTY reader can
\* take the next chunk for as long as the host runs, and the step that takes
\* a chunk appends it to the log file and puts it last in the queue of every
\* connected client.
C28_ReaderNeverBlockedByClient ==
    /\ []((h_pc # "terminated" /\ pty_reader = "running" /\ pty_chunks < MaxLagChunks)
            => ENABLED PtyReadUpTo(MaxLagChunks))
    /\ [][pty_chunks' # pty_chunks =>
            /\ pty_chunks' = pty_chunks + 1
            /\ pty_log' = pty_log + 1
            /\ \A k \in Clients :
                  writer[k] = "running" =>
                     /\ rx'[k].items # <<>>
                     /\ rx'[k].items[Len(rx'[k].items)] = PtyChunk
                     /\ Len(rx'[k].items) = Min(Len(rx[k].items) + 1, BROADCAST_CAPACITY)]_vars

\* The reader has gone on past a client whose queue was full.
C28_Witness ==
    /\ writer[1] = "running"
    /\ rx[1].lagged
    /\ Len(rx[1].items) = BROADCAST_CAPACITY
    /\ pty_chunks > BROADCAST_CAPACITY
    /\ pty_log = pty_chunks

\* C29: the writer task of a connected client goes on for as long as the host
\* runs, so that what the reader broadcasts after the client has fallen more
\* than the capacity of the channel behind, and the exit notification, still
\* reach its socket.
C29_LaggedClientKeepsReceiving ==
    [][\A k \in Clients :
         (writer[k] = "running" /\ writer'[k] # "running") => h_pc' = "terminated"]_vars

\* What holds instead: the writer task of a client ends before the host does
\* only when its receiver has lagged.
C29_WriterEndsOnLag ==
    [][\A k \in Clients :
         (writer[k] = "running" /\ writer'[k] # "running" /\ h_pc' # "terminated")
            => rx[k].lagged]_vars

\* C30: the lines in the log buffer are the first lines the child has written
\* to its stdout and stderr, in the order it wrote them, each once; the
\* activity record has counted as many and shows the last of them.
C30_LinesArriveInEmissionOrder ==
    /\ \A i \in 1..Len(log_buffer) : log_buffer[i] = <<emitted[i], i>>
    /\ activity.log_timestamps = Len(log_buffer)
    /\ log_buffer # <<>> => activity.last_log_line = Some(log_buffer[Len(log_buffer)])

\* What holds instead: the lines of each stream arrive in the order written,
\* each once and none skipped; the two streams are merged in any order.
C30_LinesArriveInOrderPerStream ==
    /\ \A s \in Streams :
         LET got_s == SelectSeq(log_buffer, LAMBDA l : l[1] = s)
             all_s == SelectSeq([i \in 1..Len(emitted) |-> <<emitted[i], i>>],
                                LAMBDA l : l[1] = s)
         IN  /\ Len(got_s) <= Len(all_s)
             /\ got_s = SubSeq(all_s, 1, Len(got_s))
    /\ activity.log_timestamps = Len(log_buffer)
    /\ log_buffer # <<>> => activity.last_log_line = Some(log_buffer[Len(log_buffer)])

\* C31: agent_host::spawn returns Ok only when the host process it launched
\* has written .agent-host.json, and it gives up with the AgentHost error
\* only after the 40 polls of its loop.
C31_SpawnOkAfterLaunchedHostWrote ==
    [][/\ (sp_ret' = "Ok" /\ sp_ret # "Ok") => (sp_host = "serving" /\ sp_info = "launched")
       /\ (sp_pc = "polling" /\ sp_ret' = "AgentHost")
            => sp_polls = MAX_POLLS]_vars

\* What holds instead: spawn returns Ok when a file is at the path, whichever
\* host wrote it; the error after the launch comes after 40 polls.
C31_SpawnOkWhenInfoFileExists ==
    [][/\ (sp_ret' = "Ok" /\ sp_ret # "Ok") => sp_info # "none"
       /\ (sp_pc = "polling" /\ sp_ret' = "AgentHost") => sp_polls = MAX_POLLS]_vars

\* The step is a recompute: the only one that touches the flag or prunes.
IsRecompute ==
    /\ at_now' = at_now
    /\ <<at_status', at_agent', at_last'>> = <<at_status, at_agent, at_last>>
    /\ at_stamps' = Pruned(at_stamps, at_now)

\* C32: after a recompute the attention flag of the slot is set exactly when
\* its agent is Blocked, or its status is Error, or its agent is Active and
\* its last log event is at least 300 s old.
C32_AttentionAfterRecompute ==
    [][IsRecompute =>
         (at_attention' <=>
            \/ at_agent = "Blocked"
            \/ at_status = "Error"
            \/ at_agent = "Active" /\ at_last # None /\ at_now - at_last[1] >= IDLE_SECS)]_vars

\* What holds instead: after a recompute the flag is set exactly when the
\* agent is Blocked or the status is Error.
C32_AttentionOnlyBlockedOrError ==
    [][IsRecompute =>
         (at_attention' <=> (at_agent = "Blocked" \/ at_status = "Error"))]_vars

\* s is t with some elements left out.
RECURSIVE IsSubsequence(_, _)
IsSubsequence(s, t) ==
    IF s = <<>> THEN TRUE
    ELSE IF t = <<>> THEN FALSE
    ELSE IF Head(s) = Head(t) THEN IsSubsequence(Tail(s), Tail(t))
    ELSE IsSubsequence(s, Tail(t))

IsSuffix(s, t) == Len(s) <= Len(t) /\ s = SubSeq(t, Len(t) - Len(s) + 1, Len(t))

\* C33: what the tailer has sent are appended non-empty lines, in file order
\* and each once; and once it has polled a file that has not changed since
\* (the channel being open), the non-empty lines now in the file, those
\* appended after a truncation included, are the last lines it has sent.
C33_TailerDeliversEveryLine ==
    /\ IsSubsequence(tl_sent, NonEmpty(tl_appended))
    /\ (tl_seen /\ ~tl_closed) => IsSuffix(NonEmpty(lines(tl_file)), tl_sent)

\* What holds instead: the same for a file that has never been truncated.
C33_TailerDeliversWithoutTruncation ==
    (lines(tl_file) = tl_appended) =>
        /\ IsSubsequence(tl_sent, NonEmpty(tl_appended))
        /\ (tl_seen /\ ~tl_closed) => tl_sent = NonEmpty(tl_appended)

\* C34: once the receiver of the tailer's channel is closed, the tailer task
\* eventually ends, whether the log file exists or not.
C34_TailerEndsAfterClose == tl_closed ~> (tl_pc = "done")

\* What holds instead: it ends once the receiver is closed and the file
\* exists.
C34_TailerEndsAfterCloseOfExistingFile == (tl_closed /\ tl_exists) ~> (tl_pc = "done")

\* The step on which reconnect_existing_sessions returns.
IsReconnectReturn == pc[1] = "r_reset" /\ pc'[1] = "idle"

\* C35: when reconnect_existing_sessions returns, the registry has the same
\* slots in the same order, every slot whose tmux session is not alive is
\* Ready with no agent, every slot whose session is alive is as it was, and
\* state.json is the registry.
C35_ReconnectResetsSlotsWithoutSession ==
    [][IsReconnectReturn =>
         /\ Len(slots') = Len(slots)
         /\ \A i \in DOMAIN slots :
               /\ slots'[i].name = slots[i].name
               /\ IF slots[i].name \in tmux_sessions
                  THEN slots'[i] = slots[i]
                  ELSE slots'[i].status = "Ready" /\ slots'[i].agent_status = "None"
         /\ state_file' = slots']_vars

\* What holds instead: the same with the names the filter of lines 61-65 let
\* through in place of the sessions that are alive, and state.json is the
\* registry when the call returns Ok.
C35_ReconnectResetsSlotsNotListed ==
    [][IsReconnectReturn =>
         /\ Len(slots') = Len(slots)
         /\ \A i \in DOMAIN slots :
               /\ slots'[i].name = slots[i].name
               /\ IF slots[i].name \in loc[1].ao_sessions
                  THEN slots'[i] = slots[i]
                  ELSE slots'[i] = [slots[i] EXCEPT !.status = "Ready",
                                                    !.agent_status = "None"]
         /\ (ret'.res = "Ok") => state_file' = slots']_vars

\* The edges of the agent lifecycle.
AgentStatusEdges ==
    {<<"None", "Starting">>, <<"Starting", "Active">>, <<"Active", "Blocked">>,
     <<"Active", "Stopped">>}

\* C36: every change of the agent status of a slot that stays in the registry
\* follows None -> Starting, Starting -> Active, Active -> Blocked or
\* Active -> Stopped, also when spawn_agent is called for a slot whose agent
\* is Starting or Active.
C36_AgentStatusFollowsLifecycle ==
    [][\A n \in Names :
         (NameTaken(slots, n) /\ NameTaken(slots', n)) =>
            LET old == slots[FindSlot(slots, n)].agent_status
                new == slots'[FindSlot(slots', n)].agent_status
            IN  old # new => <<old, new>> \in AgentStatusEdges]_vars

\* What the Slot Manager does instead: spawn_agent sets Starting and then
\* Active, each whatever the agent status was; it sets nothing else.
C36_AgentStatusSetBySpawnStep ==
    [][\A n \in Names :
         (NameTaken(slots, n) /\ NameTaken(slots', n)) =>
            LET old == slots[FindSlot(slots, n)].agent_status
                new == slots'[FindSlot(slots', n)].agent_status
            IN  old # new =>
                  \E t \in Tasks :
                     \/ pc[t] = "a_starting" /\ new = "Starting"
                     \/ pc[t] = "a_active" /\ new = "Active"]_vars

\* create_slot has just returned an error other than SlotAlreadyExists.
CreateFailed == ret.op = "create" /\ ret.res \notin {"none", "Ok", "SlotAlreadyExists"}

\* C37: when create_slot returns an error (other than for a name that was
\* taken before), the registry holds no slot of that name, also when the
\* failing step is the spawn_agent for a prompt.
C37_FailedCreateAddsNoSlot ==
    CreateFailed => ~NameTaken(slots, ret.name)

\* What holds instead: the slot is in the registry exactly when the error
\* came from the persist after the push or from the spawn_agent after it.
C37_FailedCreateAddsSlotFromPushOn ==
    CreateFailed =>
        (NameTaken(slots, ret.name) <=> ret.at \in {"c_push", "a_starting", "a_spawn", "a_active"})

\* start_aspire, or spawn_agent called by itself, has just returned an error.
StartOrSpawnFailed ==
    /\ Quiescent
    /\ ret.op \in {"start", "spawn_agent"}
    /\ ret.res \notin {"none", "Ok"}
    /\ NameTaken(slots, ret.name)

\* C38: when start_aspire returns an error, with no other call in progress,
\* the status of the slot is not Starting; when spawn_agent returns an
\* error, its agent status is not Starting.
C38_FailedStartNotLeftStarting ==
    StartOrSpawnFailed =>
        LET s == slots[FindSlot(slots, ret.name)]
        IN  /\ ret.op = "start" => s.status # "Starting"
            /\ ret.op = "spawn_agent" => s.agent_status # "Starting"

\* What holds instead: an error that comes before the first write of the
\* call (no such slot, no usable manifest) leaves the registry as it was; an
\* error that comes after it leaves the transient status written.
C38_FailedStartKeepsWhatItWrote ==
    [][(ret'.op \in {"start", "spawn_agent"} /\ ret'.res \notin {"none", "Ok"}) =>
         IF ret'.at \in {"s_get", "s_config", "a_get"}
         THEN slots' = slots
         ELSE LET s == slots'[FindSlot(slots', ret'.name)]
              IN  /\ ret'.at \in {"s_starting", "s_spawn"} => s.status = "Starting"
                  /\ ret'.at \in {"a_starting", "a_spawn"} => s.agent_status = "Starting"]_vars

\* C39: whenever no call is in progress, every key of aspire_processes and
\* of agent_tailer_handles is the name of a slot in the registry, and no
\* stack child that was spawned and not killed is without an entry of
\* aspire_processes.
C39_MapsReferToRegisteredSlots ==
    Quiescent =>
        /\ aspire_processes \subseteq SlotNames(slots)
        /\ agent_tailer_handles \subseteq SlotNames(slots)
        /\ orphan_children = {}

\* What holds instead: a key enters aspire_processes only with the insert of
\* a start_aspire that found the slot, and agent_tailer_handles only with
\* the insert of a spawn_agent that found it.
C39_MapKeysEnterByInsert ==
    [][/\ \A n \in aspire_processes' \ aspire_processes :
             \E t \in Tasks : pc[t] = "s_insert" /\ arg[t] = n
       /\ \A n \in agent_tailer_handles' \ agent_tailer_handles :
             \E t \in Tasks : pc[t] = "a_tailer" /\ arg[t] = n]_vars

\* C40: whenever no call is in progress, a slot that is Running has a child
\* in aspire_processes, also in a new process after load_state and
\* reconnect_existing_sessions.
C40_RunningHasLiveStack ==
    Quiescent =>
        \A i \in DOMAIN slots :
            slots[i].status = "Running" => slots[i].name \in aspire_processes

\* What holds instead: after reconnect_existing_sessions a slot is Running
\* only if state.json had it Running and its name is among the sessions the
\* call found.
C40_RunningAfterReconnectHadSession ==
    [][IsReconnectReturn =>
         \A i \in DOMAIN slots' :
            slots'[i].status = "Running" =>
                /\ slots[i].status = "Running"
                /\ slots[i].name \in loc[1].ao_sessions]_vars

====
